---- MODULE Spec2Model ----
(***************************************************************************)
(* ANCF1 container: the format primitives (ancf_core/src/format.rs), the   *)
(* streaming Writer (writer.rs), the random-access Reader (reader.rs) and  *)
(* the bundled codecs (ancf_codecs).  The file is a sequence of bytes; the *)
(* Writer and the Reader act on it through their own file cursors.         *)
(***************************************************************************)
EXTENDS Integers, Sequences, FiniteSets, TLC

\* ------------------------------------------------------------------ bounds
MaxLen == 3          \* total number of raw bytes handed to Writer.write
MaxBlockSize == 2    \* block_size given to Writer.create ranges over 1..MaxBlockSize
MaxSlice == 2        \* longest slice of one Writer.write call
MaxRangeLen == 3     \* longest len argument of read_range
MaxCorruptLen == 2   \* total number of raw bytes written in SpecCorrupt
MaxReadersLen == 2   \* total number of raw bytes written in SpecReaders
MaxVersion == 2      \* header versions of SpecForeign range over 0..MaxVersion and 256
MaxCalls == 2        \* compress_block calls made on the codec instance of SpecCodec
MaxRawLen == 2       \* longest raw block handed to the codec in SpecCodec
MaxField == 1        \* header and entry fields of SpecFormat range over 0..MaxField and the byte boundaries
MaxBlocks == 4       \* blocks a Writer of SpecZero flushes before the model stops following it
MaxWrites == 3       \* write calls made on the Writer of SpecSlices
MaxFlagsLen == 2     \* total number of raw bytes written in SpecFlags
MaxTableLen == 3
MaxWideLen == 2
MaxFailLen == 6
MaxFailBlock == 4

\* ------------------------------------------------------------ byte helpers
Min(a, b) == IF a < b THEN a ELSE b
Max(a, b) == IF a > b THEN a ELSE b

Zeros(n) == [i \in 1..n |-> 0]

RECURSIVE Concat(_)
Concat(ss) == IF ss = <<>> THEN <<>> ELSE Head(ss) \o Concat(Tail(ss))

\* Rust slice d[a..b] (0-based, half open).
Slice(d, a, b) == SubSeq(d, a + 1, b)

\* v.to_le_bytes() of an n-byte unsigned integer.
RECURSIVE to_le_bytes(_, _)
to_le_bytes(v, n) ==
    IF n = 0 THEN <<>> ELSE <<v % 256>> \o to_le_bytes(v \div 256, n - 1)

\* Values of 2^24 and more cannot be told apart by the model: they keep their
\* low 24 bits and are all at least Huge, which exceeds every length and
\* offset a file of the model has.
Huge == 16777216

AnyNonZero(bytes) == \E i \in 1..Len(bytes) : bytes[i] # 0

\* uN::from_le_bytes(bytes).
from_le_bytes(bytes) ==
    LET n  == Len(bytes)
        b(i) == IF i <= n THEN bytes[i] ELSE 0
    IN  b(1) + 256 * b(2) + 65536 * b(3)
        + (IF n > 3 /\ AnyNonZero(SubSeq(bytes, 4, n)) THEN Huge ELSE 0)

\* ------------------------------------------------------- format primitives
MAGIC == <<65, 78, 67, 70, 49, 10, 0, 0, 0, 0, 0, 0, 0, 0>>
HEADER_SIZE == 56
BLOCK_ENTRY_SIZE == 32
FOOTER_SIZE == 8
FLAG_HAS_CHECKSUM == 1
FLAG_PER_BLOCK_META == 2

CODEC_PASSTHROUGH == 0
CODEC_ZSTD == 1
CODEC_LZ4 == 2
CODEC_FLOAT_QUANT == 4
CODEC_BITPACK == 5
CODEC_RLE == 6

\* v.to_be_bytes() of an n-byte unsigned integer.
RECURSIVE to_be_bytes(_, _)
to_be_bytes(v, n) ==
    IF n = 0 THEN <<>> ELSE to_be_bytes(v \div 256, n - 1) \o <<v % 256>>

Ancf1Header_to_bytes_be(h) ==
    MAGIC \o to_be_bytes(h.version, 2) \o to_be_bytes(h.codec_id, 2)
          \o to_be_bytes(h.block_size, 4) \o to_be_bytes(h.block_count, 8)
          \o to_be_bytes(h.flags, 8) \o Zeros(18)

Ancf1Header_to_bytes(h) ==
    MAGIC \o to_le_bytes(h.version, 2) \o to_le_bytes(h.codec_id, 2)
          \o to_le_bytes(h.block_size, 4) \o to_le_bytes(h.block_count, 8)
          \o to_le_bytes(h.flags, 8) \o Zeros(18)

NoHeader == [version |-> 0, codec_id |-> 0, block_size |-> 0, block_count |-> 0, flags |-> 0]

MagicMatches_tag(buf) == SubSeq(buf, 1, 6) = SubSeq(MAGIC, 1, 6)

\* The magic comparison of Ancf1Header::from_bytes.
MagicMatches(buf) == SubSeq(buf, 1, 14) = MAGIC

Ancf1Header_from_bytes(buf) ==
    IF ~MagicMatches(buf)
    THEN [ok |-> FALSE, err |-> "InvalidMagic", header |-> NoHeader]
    ELSE [ok |-> TRUE, err |-> "",
          header |-> [version     |-> from_le_bytes(SubSeq(buf, 15, 16)),
                      codec_id    |-> from_le_bytes(SubSeq(buf, 17, 18)),
                      block_size  |-> from_le_bytes(SubSeq(buf, 19, 22)),
                      block_count |-> from_le_bytes(SubSeq(buf, 23, 30)),
                      flags       |-> from_le_bytes(SubSeq(buf, 31, 38))]]

\* flags & flag != 0, for a one-bit flag.
has_flag(h, flag) == (h.flags \div flag) % 2 = 1

BlockEntry_to_bytes(e) ==
    to_le_bytes(e.offset, 8) \o to_le_bytes(e.compressed_len, 4)
        \o to_le_bytes(e.raw_len, 4) \o to_le_bytes(e.checksum, 8)
        \o to_le_bytes(e.metadata_len, 2) \o Zeros(6)

BlockEntry_from_bytes_swapped(buf) ==
    [offset         |-> from_le_bytes(SubSeq(buf, 1, 8)),
     compressed_len |-> from_le_bytes(SubSeq(buf, 13, 16)),
     raw_len        |-> from_le_bytes(SubSeq(buf, 9, 12)),
     checksum       |-> from_le_bytes(SubSeq(buf, 17, 24)),
     metadata_len   |-> from_le_bytes(SubSeq(buf, 25, 26))]

BlockEntry_from_bytes(buf) ==
    [offset         |-> from_le_bytes(SubSeq(buf, 1, 8)),
     compressed_len |-> from_le_bytes(SubSeq(buf, 9, 12)),
     raw_len        |-> from_le_bytes(SubSeq(buf, 13, 16)),
     checksum       |-> from_le_bytes(SubSeq(buf, 17, 24)),
     metadata_len   |-> from_le_bytes(SubSeq(buf, 25, 26))]

\* ---------------------------------------------------------------- checksum
\* xxh3_64 of the external xxhash crate, as a polynomial hash modulo a prime:
\* two payloads of one length that differ in a single byte hash differently.
RECURSIVE HashFrom(_, _)
HashFrom(h, bytes) ==
    IF bytes = <<>> THEN h
    ELSE HashFrom((h * 31 + Head(bytes) + 1) % 65521, Tail(bytes))

xxh3_64(bytes) == HashFrom(17, bytes)

\* ------------------------------------------------------------------ codecs
\* A codec instance is named by its id().  compress_block returns the payload
\* and the sidecar it left in BlockMeta; decompress_block returns the raw bytes.
Codecs == {CODEC_PASSTHROUGH, CODEC_ZSTD, CODEC_LZ4, CODEC_FLOAT_QUANT}

CodecOk(data, sidecar) == [ok |-> TRUE, data |-> data, sidecar |-> sidecar]
CodecErr == [ok |-> FALSE, data |-> <<>>, sidecar |-> <<>>]

\* PassThroughCodec: both directions copy the bytes.
PassThrough_compress(raw) == CodecOk(raw, <<>>)
PassThrough_decompress(compressed) == CodecOk(compressed, <<>>)

\* Lz4Codec: lz4_flex compress_prepend_size, for blocks too short to hold a
\* match: the u32 raw length, one token carrying the literal count, the literals.
Lz4_compress(raw) ==
    CodecOk(to_le_bytes(Len(raw), 4) \o <<16 * Len(raw)>> \o raw, <<>>)

Lz4_decompress(compressed) ==
    IF Len(compressed) < 5 THEN CodecErr
    ELSE LET size  == from_le_bytes(SubSeq(compressed, 1, 4))
             token == compressed[5]
             lits  == SubSeq(compressed, 6, Len(compressed))
         IN  IF token % 16 = 0 /\ token \div 16 = Len(lits) /\ size = Len(lits)
             THEN CodecOk(lits, <<>>)
             ELSE CodecErr

\* ZstdCodec: zstd::bulk::compress of a short block gives a single-segment
\* frame holding one raw block: magic, frame header descriptor, content size,
\* 3-byte block header (size * 8 + 1), the bytes.
ZstdMagic == <<40, 181, 47, 253>>

Zstd_compress(raw) ==
    CodecOk(ZstdMagic \o <<32, Len(raw)>> \o to_le_bytes(Len(raw) * 8 + 1, 3) \o raw, <<>>)

Zstd_decompress(compressed) ==
    IF Len(compressed) < 9 \/ SubSeq(compressed, 1, 4) # ZstdMagic THEN CodecErr
    ELSE LET body == SubSeq(compressed, 10, Len(compressed))
         IN  IF /\ compressed[5] = 32
                /\ compressed[6] = Len(body)
                /\ from_le_bytes(SubSeq(compressed, 7, 9)) = Len(body) * 8 + 1
             THEN CodecOk(body, <<>>)
             ELSE CodecErr

\* A codec that uses the per-block sidecar, as the Codec trait allows (the
\* FloatQuant kind of codec): the sidecar holds the block's first byte, the
\* payload holds every byte's distance from it.
Sidecar_compress(raw) ==
    IF raw = <<>> THEN CodecOk(<<>>, <<>>)
    ELSE CodecOk([i \in 1..Len(raw) |-> (raw[i] - raw[1] + 256) % 256], <<raw[1]>>)

Sidecar_decompress(compressed, sidecar) ==
    IF compressed = <<>> THEN CodecOk(<<>>, <<>>)
    ELSE IF Len(sidecar) # 1 THEN CodecErr
    ELSE CodecOk([i \in 1..Len(compressed) |-> (compressed[i] + sidecar[1]) % 256], <<>>)

\* A codec whose sidecar is a per-block table, as the Codec trait allows
\* (BlockMeta.sidecar is a Vec<u8> of any length): TableBase bytes of table and
\* one byte for every byte of the block; the payload is the block.
TableBase == 65534

Table_compress(raw) == CodecOk(raw, Zeros(TableBase) \o raw)

Table_decompress(compressed, sidecar) ==
    IF sidecar = Zeros(TableBase) \o compressed THEN CodecOk(compressed, <<>>) ELSE CodecErr

\* A codec whose compress_block returns Err for some blocks, as the trait's
\* anyhow::Result allows (ZstdCodec's does when zstd::bulk::compress fails): it
\* takes 7-bit bytes only, and copies them.
Strict_compress(raw) ==
    IF \E i \in 1..Len(raw) : raw[i] >= 128 THEN CodecErr ELSE CodecOk(raw, <<>>)

Strict_decompress(compressed) ==
    IF \E i \in 1..Len(compressed) : compressed[i] >= 128 THEN CodecErr
    ELSE CodecOk(compressed, <<>>)

compress_block(c, raw) ==
    CASE c = CODEC_PASSTHROUGH -> PassThrough_compress(raw)
      [] c = CODEC_ZSTD        -> Zstd_compress(raw)
      [] c = CODEC_LZ4         -> Lz4_compress(raw)
      [] c = CODEC_BITPACK     -> Table_compress(raw)
      [] c = CODEC_RLE         -> Strict_compress(raw)
      [] OTHER                 -> Sidecar_compress(raw)

decompress_block(c, compressed, sidecar) ==
    CASE c = CODEC_PASSTHROUGH -> PassThrough_decompress(compressed)
      [] c = CODEC_ZSTD        -> Zstd_decompress(compressed)
      [] c = CODEC_LZ4         -> Lz4_decompress(compressed)
      [] c = CODEC_BITPACK     -> Table_decompress(compressed, sidecar)
      [] c = CODEC_RLE         -> Strict_decompress(compressed)
      [] OTHER                 -> Sidecar_decompress(compressed, sidecar)

\* ------------------------------------------------------------------- state
VARIABLES
    file,              \* the bytes of the file at `path`
    w_pc,              \* where the Writer stands: open, write_loop, fin_index, fin_footer, fin_header, done
    w_codec,           \* Writer.codec
    w_block_size,      \* Writer.block_size
    w_pending,         \* Writer.pending
    w_entries,         \* Writer.entries
    w_current_offset,  \* Writer.current_offset
    w_cursor,          \* position of the Writer's file handle
    w_index_offset,    \* finish's local index_offset
    w_result,          \* value returned by finish (-1 before it returns)
    written,           \* every byte passed to write so far, in order
    slices,            \* the lengths of the slices of the write calls so far, where they are recorded (SpecSlices)
    r_open,            \* a Reader exists
    r_header,          \* Reader.header
    r_entries,         \* Reader.entries
    r_codec,           \* Reader.codec: the codec handed to the last Reader.open
    r_cursor,          \* position of the Reader's file handle
    open_result,       \* outcome of the last Reader.open
    open_pc,           \* w_pc at the time of the last Reader.open
    res,               \* the last read_block / read_range call (`from`: the cursor it found) and its result
    prev,              \* status of the call before it on the same Reader ("none": there was none)
    rd,                \* the Readers that run their calls step by step: file handles and Reader states
    cx,                \* calls made on one codec instance: every compress_block call, and the last decompress_block call
    corrupt_pos        \* 1-based position of the byte changed on disk behind the Writer's back (0: none)

wvars == <<w_pc, w_codec, w_block_size, w_pending, w_entries, w_current_offset,
           w_cursor, w_index_offset, w_result, written, slices>>
rvars1 == <<r_open, r_header, r_entries, r_codec, r_cursor, open_result, open_pc, res, prev>>
rvars == <<rvars1, rd, cx>>
vars == <<file, wvars, rvars, corrupt_pos>>

\* ------------------------------------------------------------------ file I/O
\* write_all(bytes) on a handle at position pos (0-based).
WriteAt(f, pos, bytes) ==
    (IF pos <= Len(f) THEN SubSeq(f, 1, pos) ELSE f \o Zeros(pos - Len(f)))
        \o bytes \o SubSeq(f, pos + Len(bytes) + 1, Len(f))

\* read_exact of n bytes on a handle at position pos: fails at end of file.
ReadExact(f, pos, n) ==
    IF pos + n <= Len(f)
    THEN [ok |-> TRUE, data |-> SubSeq(f, pos + 1, pos + n), pos |-> pos + n]
    ELSE [ok |-> FALSE, data |-> <<>>, pos |-> Max(pos, Len(f))]

\* ------------------------------------------------------------------- Writer
\* `as u16` of a length.
AsU16(n) == n % 65536

PlaceholderHeader_real ==
    Ancf1Header_to_bytes([version |-> 1, codec_id |-> CODEC_PASSTHROUGH, block_size |-> 0,
                          block_count |-> 0, flags |-> FLAG_HAS_CHECKSUM])

\* The placeholder Writer::create writes where the header will be.
PlaceholderHeader == Zeros(HEADER_SIZE)

BlockOffset_late(current_offset, after_prefix) == after_prefix

\* block_offset of flush_block: the cursor before anything of the block is written.
BlockOffset(current_offset, after_prefix) == current_offset

OnCompressError_pushing(w) ==
    [w EXCEPT !.ok = FALSE,
              !.entries = Append(@, [offset |-> w.current_offset, compressed_len |-> 0,
                                     raw_len |-> 0, checksum |-> 0, metadata_len |-> 0])]

\* The `?` on compress_block's result: flush_block returns the error at once.
OnCompressError(w) == [w EXCEPT !.ok = FALSE]

\* Writer::flush_block on the writer state w = [file, cursor, current_offset, entries].
flush_block(w, codec, raw) ==
    LET c            == compress_block(codec, raw)
        metadata_len == AsU16(Len(c.sidecar))
        prefix       == IF metadata_len > 0
                        THEN to_le_bytes(metadata_len, 2) \o c.sidecar ELSE <<>>
        f1           == WriteAt(w.file, w.cursor, prefix \o c.data)
        off1         == IF metadata_len > 0
                        THEN w.current_offset + 2 + Len(c.sidecar) ELSE w.current_offset
    IN  IF ~c.ok THEN OnCompressError(w)
        ELSE [ok             |-> TRUE,
              file           |-> f1,
              cursor         |-> w.cursor + Len(prefix) + Len(c.data),
              current_offset |-> off1 + Len(c.data),
              entries        |-> Append(w.entries,
                                    [offset         |-> BlockOffset(w.current_offset, off1),
                                     compressed_len |-> Len(c.data),
                                     raw_len        |-> Len(raw),
                                     checksum       |-> xxh3_64(c.data),
                                     metadata_len   |-> metadata_len])]

WriterNow == [ok |-> TRUE, file |-> file, cursor |-> w_cursor,
              current_offset |-> w_current_offset, entries |-> w_entries]

TakeFlushed(w) ==
    /\ file' = w.file
    /\ w_cursor' = w.cursor
    /\ w_current_offset' = w.current_offset
    /\ w_entries' = w.entries

\* Writer::write, entry: the slice joins the pending buffer.
Write(data) ==
    /\ w_pc = "open"
    /\ w_pending' = w_pending \o data
    /\ written' = written \o data
    /\ w_pc' = "write_loop"
    /\ UNCHANGED <<file, w_codec, w_block_size, w_entries, w_current_offset, w_cursor,
                   w_index_offset, w_result, slices, rvars, corrupt_pos>>

\* Writer::write, one turn of the loop: drain block_size bytes and flush them.
WriteFlush ==
    /\ w_pc = "write_loop"
    /\ Len(w_pending) >= w_block_size
    /\ LET raw == SubSeq(w_pending, 1, w_block_size)
           w   == flush_block(WriterNow, w_codec, raw)
       IN  /\ w_pending' = SubSeq(w_pending, w_block_size + 1, Len(w_pending))
           /\ TakeFlushed(w)
           /\ w_pc' = IF w.ok THEN "write_loop" ELSE "failed"
    /\ UNCHANGED <<w_codec, w_block_size, w_index_offset, w_result, written, slices, rvars, corrupt_pos>>

WriteReturn_flushing ==
    /\ w_pc = "write_loop"
    /\ Len(w_pending) < w_block_size
    /\ LET w == IF w_pending # <<>> THEN flush_block(WriterNow, w_codec, w_pending)
                ELSE WriterNow
       IN  /\ TakeFlushed(w)
           /\ w_pc' = IF w.ok THEN "open" ELSE "failed"
    /\ w_pending' = <<>>
    /\ UNCHANGED <<w_codec, w_block_size, w_index_offset, w_result, written, slices, rvars,
                   corrupt_pos>>

\* Writer::write, loop exit and return.
WriteReturn ==
    /\ w_pc = "write_loop"
    /\ Len(w_pending) < w_block_size
    /\ w_pc' = "open"
    /\ UNCHANGED <<file, w_codec, w_block_size, w_pending, w_entries, w_current_offset,
                   w_cursor, w_index_offset, w_result, written, slices, rvars, corrupt_pos>>

HasTail_never(pending) == FALSE
HasTail_always(pending) == TRUE

\* finish flushes a trailing block only when bytes are pending.
HasTail(pending) == pending # <<>>

\* Writer::finish, first part: flush the partial trailing block.
FinishTail ==
    /\ w_pc = "open"
    /\ LET w == IF HasTail(w_pending) THEN flush_block(WriterNow, w_codec, w_pending)
                ELSE WriterNow
       IN  /\ TakeFlushed(w)
           /\ w_pc' = IF w.ok THEN "fin_index" ELSE "failed"
    /\ w_pending' = <<>>
    /\ UNCHANGED <<w_codec, w_block_size, w_index_offset, w_result, written, slices, rvars, corrupt_pos>>

IndexBytes(entries) == Concat([i \in 1..Len(entries) |-> BlockEntry_to_bytes(entries[i])])

\* Writer::finish, the block index.
FinishIndex ==
    /\ w_pc = "fin_index"
    /\ w_index_offset' = w_current_offset
    /\ file' = WriteAt(file, w_cursor, IndexBytes(w_entries))
    /\ w_cursor' = w_cursor + Len(w_entries) * BLOCK_ENTRY_SIZE
    /\ w_current_offset' = w_current_offset + Len(w_entries) * BLOCK_ENTRY_SIZE
    /\ w_pc' = "fin_footer"
    /\ UNCHANGED <<w_codec, w_block_size, w_pending, w_entries, w_result, written,
                   slices, rvars, corrupt_pos>>

\* Writer::finish, the footer.
FinishFooter ==
    /\ w_pc = "fin_footer"
    /\ file' = WriteAt(file, w_cursor, to_le_bytes(w_index_offset, FOOTER_SIZE))
    /\ w_cursor' = w_cursor + FOOTER_SIZE
    /\ w_pc' = "fin_header"
    /\ UNCHANGED <<w_codec, w_block_size, w_pending, w_entries, w_current_offset,
                   w_index_offset, w_result, written, slices, rvars, corrupt_pos>>

FinalHeader_noflags ==
    [version     |-> 1,
     codec_id    |-> w_codec,
     block_size  |-> w_block_size,
     block_count |-> Len(w_entries),
     flags       |-> 0]

\* The header finish builds from the Writer's fields.
FinalHeader ==
    [version     |-> 1,
     codec_id    |-> w_codec,
     block_size  |-> w_block_size,
     block_count |-> Len(w_entries),
     flags       |-> FLAG_HAS_CHECKSUM]

\* Writer::finish, last part: seek to 0, write the real header, return.
FinishHeader ==
    /\ w_pc = "fin_header"
    /\ file' = WriteAt(file, 0, Ancf1Header_to_bytes(FinalHeader))
    /\ w_cursor' = HEADER_SIZE
    /\ w_result' = Len(w_entries)
    /\ w_pc' = "done"
    /\ UNCHANGED <<w_codec, w_block_size, w_pending, w_entries, w_current_offset,
                   w_index_offset, written, slices, rvars, corrupt_pos>>

\* ------------------------------------------------------------------- Reader
NoRes == [op |-> "none", idx |-> 0, start |-> 0, len |-> 0, from |-> 0,
          status |-> "none", data |-> <<>>, io |-> <<>>]

OpenFail(err) == [status |-> err, header |-> NoHeader, entries |-> <<>>, cursor |-> 0]

\* The index loop of Reader::open: block_count entries of 32 bytes from index_offset.
LoadEntries(f, index_offset, block_count) ==
    [i \in 1..block_count |->
        BlockEntry_from_bytes(SubSeq(f, index_offset + (i - 1) * BLOCK_ENTRY_SIZE + 1,
                                        index_offset + i * BLOCK_ENTRY_SIZE))]

HeaderCheck_codecfirst(header, codec) ==
    IF header.codec_id # codec THEN "CodecMismatch"
    ELSE IF header.version # 1 THEN "UnsupportedVersion"
    ELSE "Ok"

HeaderCheck_nocodec(header, codec) ==
    IF header.version # 1 THEN "UnsupportedVersion" ELSE "Ok"

\* The two checks Reader::open makes on the decoded header, in their order.
HeaderCheck(header, codec) ==
    IF header.version # 1 THEN "UnsupportedVersion"
    ELSE IF header.codec_id # codec THEN "CodecMismatch"
    ELSE "Ok"

\* Reader::open(path, codec) on the file as it is now: the set of its possible
\* outcomes.  A block_count of 2^24 or more asks Vec::with_capacity for at least
\* 512 MiB: the allocation aborts the process or the index read runs off the file.
OpenOutcomes(f, codec) ==
    LET hb == ReadExact(f, 0, HEADER_SIZE)
        h  == Ancf1Header_from_bytes(hb.data)
        fb == ReadExact(f, Len(f) - FOOTER_SIZE, FOOTER_SIZE)
        index_offset == from_le_bytes(fb.data)
    IN  IF ~hb.ok THEN {OpenFail("Io")}
        ELSE IF ~h.ok THEN {OpenFail(h.err)}
        ELSE IF HeaderCheck(h.header, codec) # "Ok" THEN {OpenFail(HeaderCheck(h.header, codec))}
        ELSE IF Len(f) < FOOTER_SIZE THEN {OpenFail("Io")}
        ELSE IF h.header.block_count >= Huge THEN {OpenFail("Io"), OpenFail("Abort")}
        ELSE IF /\ h.header.block_count > 0
                /\ index_offset + h.header.block_count * BLOCK_ENTRY_SIZE > Len(f)
             THEN {OpenFail("Io")}
        ELSE {[status  |-> "Ok",
               header  |-> h.header,
               entries |-> LoadEntries(f, index_offset, h.header.block_count),
               cursor  |-> index_offset + h.header.block_count * BLOCK_ENTRY_SIZE]}

\* Reader::block_count and Reader::block_size.
Reader_block_count(header) == header.block_count
Reader_block_size(header) == header.block_size

\* Reader::raw_size and Reader::compressed_size.
RECURSIVE SumOver(_, _)
SumOver(entries, field) ==
    IF entries = <<>> THEN 0
    ELSE Head(entries)[field] + SumOver(Tail(entries), field)

raw_size(entries) == SumOver(entries, "raw_len")

compressed_size(entries) == SumOver(entries, "compressed_len") + SumOver(entries, "metadata_len")

ratio_unguarded(entries) == [num |-> raw_size(entries), den |-> compressed_size(entries)]

\* Reader::ratio: raw / compressed as a fraction, 1.0 when compressed is zero.
ratio(entries) ==
    IF compressed_size(entries) = 0 THEN [num |-> 1, den |-> 1]
    ELSE [num |-> raw_size(entries), den |-> compressed_size(entries)]

\* What a call does to the file handle and the codec, in order: a seek to pos,
\* a read_exact of n bytes at pos, a decompress_block call, and (in the trace of
\* read_range) the read_block(idx) call that the steps after it belong to.
IoSeek(pos) == [op |-> "seek", pos |-> pos, n |-> 0]
IoRead(pos, n) == [op |-> "read", pos |-> pos, n |-> n]
IoCodec == [op |-> "decompress", pos |-> 0, n |-> 0]
IoCall(idx) == [op |-> "read_block", pos |-> idx, n |-> 0]

ReadFail(err, cursor, io) == [status |-> err, data |-> <<>>, cursor |-> cursor, io |-> io]

InRange_last(entries, idx) == idx < Len(entries) - 1

\* self.entries.get(idx) is Some.
InRange(entries, idx) == idx < Len(entries)

PrefixMatches_always(on_disk_meta_len, metadata_len) == TRUE

\* The on-disk prefix agrees with the index entry.
PrefixMatches(on_disk_meta_len, metadata_len) == on_disk_meta_len = metadata_len

SizeMatches_always(n, raw_len) == TRUE

\* raw.len() agrees with the index entry.
SizeMatches(n, raw_len) == n = raw_len

HasSidecar_byflag(header, entry) == has_flag(header, FLAG_PER_BLOCK_META)

\* Whether read_block reads a prefix and a sidecar before the payload: the index
\* entry decides, the header's flags have no part in it.
HasSidecar(header, entry) == entry.metadata_len > 0

SeekTarget_noseek(cursor, entry) == cursor
SeekTarget_forward(cursor, entry) == IF cursor > entry.offset THEN cursor ELSE entry.offset

\* The position read_block seeks to before it reads block `entry`.
SeekTarget(cursor, entry) == entry.offset

VerifiesChecksum_never(header) == FALSE
VerifiesChecksum_always(header) == TRUE

\* Whether read_block compares the payload's checksum with the stored one.
VerifiesChecksum(header) == has_flag(header, FLAG_HAS_CHECKSUM)

\* Reader::read_block(idx) of a Reader with this header, index, codec and file
\* cursor: status, returned bytes, and where the cursor is left.  The payload
\* buffer is vec![0u8; compressed_len]: for a compressed_len of 2^24 or more that
\* runs past the end of the file the status is "IoOrAbort", which ReadOutcomes
\* resolves.
read_block(f, header, entries, codec, cursor, idx) ==
    IF ~InRange(entries, idx) THEN ReadFail("OutOfRange", cursor, <<>>)
    ELSE
    LET entry == entries[idx + 1]
        pos0  == SeekTarget(cursor, entry)
        lenb  == ReadExact(f, pos0, 2)
        side  == ReadExact(f, lenb.pos, entry.metadata_len)
        pos1  == IF HasSidecar(header, entry) THEN side.pos ELSE pos0
        sidecar == IF HasSidecar(header, entry) THEN side.data ELSE <<>>
        comp  == ReadExact(f, pos1, entry.compressed_len)
        raw   == decompress_block(codec, comp.data, sidecar)
        io0   == <<IoSeek(pos0)>>
        io1   == io0 \o <<IoRead(pos0, 2)>>
        io2   == io1 \o <<IoRead(lenb.pos, entry.metadata_len)>>
        io3   == (IF HasSidecar(header, entry) THEN io2 ELSE io0)
                     \o <<IoRead(pos1, entry.compressed_len)>>
        io4   == io3 \o <<IoCodec>>
    IN  IF HasSidecar(header, entry) /\ ~lenb.ok THEN ReadFail("Io", lenb.pos, io1)
        ELSE IF HasSidecar(header, entry)
                /\ ~PrefixMatches(from_le_bytes(lenb.data), entry.metadata_len)
             THEN ReadFail("MetadataLenMismatch", lenb.pos, io1)
        ELSE IF HasSidecar(header, entry) /\ ~side.ok THEN ReadFail("Io", side.pos, io2)
        ELSE IF ~comp.ok
             THEN ReadFail(IF entry.compressed_len >= Huge THEN "IoOrAbort" ELSE "Io",
                           comp.pos, io3)
        ELSE IF VerifiesChecksum(header) /\ xxh3_64(comp.data) # entry.checksum
             THEN ReadFail("ChecksumMismatch", comp.pos, io3)
        ELSE IF ~raw.ok THEN ReadFail("CodecError", comp.pos, io4)
        ELSE IF ~SizeMatches(Len(raw.data), entry.raw_len)
             THEN ReadFail("SizeMismatch", comp.pos, io4)
        ELSE [status |-> "Ok", data |-> raw.data, cursor |-> comp.pos, io |-> io4]

RangeEnd_unclamped(start, len, raw_total) == start + len

\* end = (start + len).min(raw_total) of read_range.
RangeEnd(start, len, raw_total) == Min(start + len, raw_total)

LastBlock_inclusive(end, block_size) == end \div block_size

\* last_block = (end - 1) / block_size of read_range.
LastBlock(end, block_size) == (end - 1) \div block_size

StartBeyond_strict(start, raw_total) == start > raw_total

\* start >= raw_total of read_range.
StartBeyond(start, raw_total) == start >= raw_total

\* The loop of read_range from block_idx on, `acc` being the bytes gathered so
\* far and `io` what the call has done so far.
RECURSIVE RangeLoop(_, _, _, _, _, _, _, _, _, _, _)
RangeLoop(f, header, entries, codec, cursor, start, end, first_block, block_idx, acc, io) ==
    LET block_size == header.block_size
        last_block == LastBlock(end, block_size)
        b          == read_block(f, header, entries, codec, cursor, block_idx)
        io1        == io \o <<IoCall(block_idx)>> \o b.io
        block_start_in_file == block_idx * block_size
        slice_start == IF block_idx = first_block THEN start - block_start_in_file ELSE 0
        slice_end   == IF block_idx = last_block
                       THEN Min(end - block_start_in_file, Len(b.data))
                       ELSE Len(b.data)
    IN  IF block_idx > last_block
        THEN [status |-> "Ok", data |-> acc, cursor |-> cursor, io |-> io]
        ELSE IF b.status # "Ok" THEN ReadFail(b.status, b.cursor, io1)
        ELSE IF slice_start > slice_end THEN ReadFail("Panic", b.cursor, io1)
        ELSE RangeLoop(f, header, entries, codec, b.cursor, start, end, first_block,
                       block_idx + 1, acc \o Slice(b.data, slice_start, slice_end), io1)

\* A u64 len of 2^63 and more is written as the negative integer its bits are in
\* two's complement (2^64 - k as -k); Huge stands for the lens from 2^24 up to
\* 2^63 - 1.  `start` is below 2^24 here.
\* start + len does not fit in a u64.
AddOverflows(start, len) == len < 0 /\ start + len >= 0

\* Vec::with_capacity(len as usize) on a 64-bit target: a capacity beyond
\* isize::MAX panics ("capacity overflow").
CapacityOverflow(len) == len < 0

\* Vec::with_capacity(len as usize): a capacity the allocator may be unable to
\* serve; the failed allocation aborts the process.
AllocMayFail(len) == len >= Huge

\* Reader::read_range(start, len).  When start + len overflows, a build with
\* overflow checks panics at the addition; a build without them lets the sum
\* wrap, and panics at Vec::with_capacity, len being beyond isize::MAX.
read_range(f, header, entries, codec, cursor, start, len) ==
    IF len = 0 THEN [status |-> "Ok", data |-> <<>>, cursor |-> cursor, io |-> <<>>]
    ELSE IF StartBeyond(start, raw_size(entries)) THEN ReadFail("OutOfRange", cursor, <<>>)
    ELSE IF AddOverflows(start, len) THEN ReadFail("Panic", cursor, <<>>)
    ELSE IF header.block_size = 0 THEN ReadFail("Panic", cursor, <<>>)
    ELSE IF CapacityOverflow(len) THEN ReadFail("Panic", cursor, <<>>)
    ELSE RangeLoop(f, header, entries, codec, cursor, start,
                   RangeEnd(start, len, raw_size(entries)),
                   start \div header.block_size, start \div header.block_size, <<>>, <<>>)

\* What the caller of a read sees: the allocation of a huge payload buffer either
\* aborts the process or is served, and then read_exact runs off the file.
ReadOutcomes(r) ==
    IF r.status = "IoOrAbort"
    THEN {[r EXCEPT !.status = "Io"], [r EXCEPT !.status = "Abort"]}
    ELSE {r}

\* What the caller of read_range sees: where the result buffer is allocated for
\* a len the allocator may be unable to serve, the process may abort instead.
RangeOutcomes(f, header, entries, codec, cursor, start, len) ==
    ReadOutcomes(read_range(f, header, entries, codec, cursor, start, len))
        \cup (IF /\ AllocMayFail(len)
                 /\ ~StartBeyond(start, raw_size(entries))
                 /\ header.block_size # 0
              THEN {ReadFail("Abort", cursor, <<>>)} ELSE {})

\* Reader::open(path, codec), by any process, at any moment of the file's life.
Open(codec) ==
    /\ \E o \in OpenOutcomes(file, codec) :
        /\ open_result' = o.status
        /\ r_open' = (o.status = "Ok")
        /\ r_header' = o.header
        /\ r_entries' = o.entries
        /\ r_cursor' = o.cursor
        /\ r_codec' = codec
    /\ open_pc' = w_pc
    /\ res' = NoRes
    /\ prev' = "none"
    /\ UNCHANGED <<file, wvars, rd, cx, corrupt_pos>>

ReadBlock(idx) ==
    /\ r_open
    /\ \E r \in ReadOutcomes(read_block(file, r_header, r_entries, r_codec, r_cursor, idx)) :
           /\ res' = [op |-> "read_block", idx |-> idx, start |-> 0, len |-> 0,
                      from |-> r_cursor, status |-> r.status, data |-> r.data,
                      io |-> r.io]
           /\ r_cursor' = r.cursor
           /\ r_open' = (r.status # "Abort")
    /\ prev' = res.status
    /\ UNCHANGED <<file, wvars, r_header, r_entries, r_codec, open_result,
                   open_pc, rd, cx, corrupt_pos>>

ReadRange(start, len) ==
    /\ r_open
    /\ \E r \in RangeOutcomes(file, r_header, r_entries, r_codec, r_cursor, start, len) :
           /\ res' = [op |-> "read_range", idx |-> 0, start |-> start, len |-> len,
                      from |-> r_cursor, status |-> r.status, data |-> r.data,
                      io |-> r.io]
           /\ r_cursor' = r.cursor
           /\ r_open' = (r.status \notin {"Abort", "Panic"})
    /\ prev' = res.status
    /\ UNCHANGED <<file, wvars, r_header, r_entries, r_codec, open_result,
                   open_pc, rd, cx, corrupt_pos>>

\* ------------------------------------------- Readers running step by step
\* Reader instances, each made by its own Reader::open.
Readers == {"a", "b"}

HandleOf_shared(k) == "a"

\* The file handle of Reader k: Reader::open calls File::open, so every Reader
\* has a handle, and with it a file cursor, of its own.
HandleOf(k) == k

\* A Reader's state: its fields, the call it is in (or made last) with the cursor
\* it found, the block and the buffers that call is at, and the call's result.
\* `overlap` says that another Reader moved or read its handle during the call.
RdClosed ==
    [pc |-> "closed", header |-> NoHeader, entries |-> <<>>, codec |-> CODEC_PASSTHROUGH,
     op |-> "none", idx |-> 0, start |-> 0, len |-> 0, from |-> 0,
     blk |-> 0, end |-> 0, acc |-> <<>>, sidecar |-> <<>>, overlap |-> FALSE,
     status |-> "none", data |-> <<>>]

RdInit == [pos |-> [h \in Readers |-> 0], st |-> [k \in Readers |-> RdClosed]]

MidCall == {"seek", "prefix", "sidecar", "payload"}

\* Reader k becomes `rec` without touching a handle.
RdQuiet(k, rec) == rd' = [rd EXCEPT !.st[k] = rec]

\* Reader k becomes `rec` in a step that leaves its handle at position p; the
\* Readers that are inside a call at that moment have been overlapped.
RdIo(k, rec, p) ==
    rd' = [pos |-> [rd.pos EXCEPT ![HandleOf(k)] = p],
           st  |-> [j \in Readers |->
                      IF j = k THEN rec
                      ELSE IF rd.st[j].pc \in MidCall
                           THEN [rd.st[j] EXCEPT !.overlap = TRUE]
                           ELSE rd.st[j]]]

\* The call of `rec` returns.
Complete(rec, status, data) ==
    [rec EXCEPT !.pc = "idle", !.status = status, !.data = data,
                !.blk = 0, !.end = 0, !.acc = <<>>, !.sidecar = <<>>]

\* Reader::open by Reader k, with the codec of the file.
ROpen(k) ==
    /\ rd.st[k].pc = "closed"
    /\ \E o \in OpenOutcomes(file, w_codec) :
          /\ o.status = "Ok"
          /\ RdIo(k, [RdClosed EXCEPT !.pc = "idle", !.header = o.header,
                                      !.entries = o.entries, !.codec = w_codec], o.cursor)
    /\ UNCHANGED <<file, wvars, rvars1, cx, corrupt_pos>>

\* Reader k enters read_block(idx): the index lookup.
RBlockCall(k, idx) ==
    /\ rd.st[k].pc = "idle"
    /\ LET rec == [rd.st[k] EXCEPT !.op = "read_block", !.idx = idx, !.start = 0, !.len = 0,
                                   !.from = rd.pos[HandleOf(k)], !.overlap = FALSE,
                                   !.status = "none", !.data = <<>>]
       IN  IF ~InRange(rec.entries, idx)
           THEN RdQuiet(k, Complete(rec, "OutOfRange", <<>>))
           ELSE RdQuiet(k, [rec EXCEPT !.pc = "seek", !.blk = idx])
    /\ UNCHANGED <<file, wvars, rvars1, cx, corrupt_pos>>

\* Reader k enters read_range(start, len): the argument checks and the loop bounds.
RRangeCall(k, start, len) ==
    /\ rd.st[k].pc = "idle"
    /\ LET rec == [rd.st[k] EXCEPT !.op = "read_range", !.idx = 0, !.start = start,
                                   !.len = len, !.from = rd.pos[HandleOf(k)],
                                   !.overlap = FALSE, !.status = "none", !.data = <<>>]
           raw_total == raw_size(rec.entries)
       IN  IF len = 0 THEN RdQuiet(k, Complete(rec, "Ok", <<>>))
           ELSE IF StartBeyond(start, raw_total)
                THEN RdQuiet(k, Complete(rec, "OutOfRange", <<>>))
           ELSE IF rec.header.block_size = 0 THEN RdQuiet(k, Complete(rec, "Panic", <<>>))
           ELSE RdQuiet(k, [rec EXCEPT !.pc = "seek",
                                       !.blk = start \div rec.header.block_size,
                                       !.end = RangeEnd(start, len, raw_total)])
    /\ UNCHANGED <<file, wvars, rvars1, cx, corrupt_pos>>

\* read_block of Reader k: the seek to the block.
RSeek(k) ==
    /\ rd.st[k].pc = "seek"
    /\ LET rec   == rd.st[k]
           entry == rec.entries[rec.blk + 1]
       IN  IF ~InRange(rec.entries, rec.blk)
           THEN RdQuiet(k, Complete(rec, "OutOfRange", <<>>))
           ELSE RdIo(k, [rec EXCEPT !.pc = IF HasSidecar(rec.header, entry) THEN "prefix"
                                           ELSE "payload"],
                     SeekTarget(rd.pos[HandleOf(k)], entry))
    /\ UNCHANGED <<file, wvars, rvars1, cx, corrupt_pos>>

\* read_block of Reader k: the read of the 2-byte prefix and its comparison.
RPrefix(k) ==
    /\ rd.st[k].pc = "prefix"
    /\ LET rec   == rd.st[k]
           entry == rec.entries[rec.blk + 1]
           lenb  == ReadExact(file, rd.pos[HandleOf(k)], 2)
       IN  IF ~lenb.ok THEN RdIo(k, Complete(rec, "Io", <<>>), lenb.pos)
           ELSE IF ~PrefixMatches(from_le_bytes(lenb.data), entry.metadata_len)
                THEN RdIo(k, Complete(rec, "MetadataLenMismatch", <<>>), lenb.pos)
           ELSE RdIo(k, [rec EXCEPT !.pc = "sidecar"], lenb.pos)
    /\ UNCHANGED <<file, wvars, rvars1, cx, corrupt_pos>>

\* read_block of Reader k: the read of the sidecar.
RSidecar(k) ==
    /\ rd.st[k].pc = "sidecar"
    /\ LET rec   == rd.st[k]
           entry == rec.entries[rec.blk + 1]
           side  == ReadExact(file, rd.pos[HandleOf(k)], entry.metadata_len)
       IN  IF ~side.ok THEN RdIo(k, Complete(rec, "Io", <<>>), side.pos)
           ELSE RdIo(k, [rec EXCEPT !.pc = "payload", !.sidecar = side.data], side.pos)
    /\ UNCHANGED <<file, wvars, rvars1, cx, corrupt_pos>>

\* read_block of Reader k: the read of the payload, the checksum, the codec and
\* the size check; inside read_range, the slice and the next turn of the loop.
RPayload(k) ==
    /\ rd.st[k].pc = "payload"
    /\ LET rec   == rd.st[k]
           entry == rec.entries[rec.blk + 1]
           comp  == ReadExact(file, rd.pos[HandleOf(k)], entry.compressed_len)
           raw   == decompress_block(rec.codec, comp.data, rec.sidecar)
           bstatus ==
               IF ~comp.ok THEN "Io"
               ELSE IF VerifiesChecksum(rec.header) /\ xxh3_64(comp.data) # entry.checksum
                    THEN "ChecksumMismatch"
               ELSE IF ~raw.ok THEN "CodecError"
               ELSE IF ~SizeMatches(Len(raw.data), entry.raw_len) THEN "SizeMismatch"
               ELSE "Ok"
           bsize       == rec.header.block_size
           first_block == rec.start \div bsize
           last_block  == LastBlock(rec.end, bsize)
           block_start_in_file == rec.blk * bsize
           slice_start == IF rec.blk = first_block THEN rec.start - block_start_in_file ELSE 0
           slice_end   == IF rec.blk = last_block
                          THEN Min(rec.end - block_start_in_file, Len(raw.data))
                          ELSE Len(raw.data)
           acc1        == rec.acc \o Slice(raw.data, slice_start, slice_end)
       IN  IF bstatus # "Ok" THEN RdIo(k, Complete(rec, bstatus, <<>>), comp.pos)
           ELSE IF rec.op = "read_block" THEN RdIo(k, Complete(rec, "Ok", raw.data), comp.pos)
           ELSE IF slice_start > slice_end THEN RdIo(k, Complete(rec, "Panic", <<>>), comp.pos)
           ELSE IF rec.blk >= last_block THEN RdIo(k, Complete(rec, "Ok", acc1), comp.pos)
           ELSE RdIo(k, [rec EXCEPT !.pc = "seek", !.blk = rec.blk + 1, !.acc = acc1,
                                    !.sidecar = <<>>], comp.pos)
    /\ UNCHANGED <<file, wvars, rvars1, cx, corrupt_pos>>

\* ------------------------------------------------ calls on a codec instance
CxInit == [calls |-> <<>>, last |-> [i |-> 0, ok |-> FALSE, data |-> <<>>]]

CallCompress_chained(c, history, raw) ==
    IF history = <<>> THEN compress_block(c, raw)
    ELSE compress_block(c, history[Len(history)].raw \o raw)

\* codec.compress_block(raw, &mut meta) on an instance that has served the calls
\* of `history`: the method takes &self and the bundled codecs have no interior
\* state, so what came before has no part in the result.
CallCompress(c, history, raw) == compress_block(c, raw)

\* A compress_block call on the shared instance, with a fresh BlockMeta.
CompressCall(raw) ==
    /\ Len(cx.calls) < MaxCalls
    /\ LET c == CallCompress(w_codec, cx.calls, raw)
       IN  /\ c.ok
           /\ cx' = [cx EXCEPT !.calls = Append(@, [raw |-> raw, compressed |-> c.data,
                                                    sidecar |-> c.sidecar])]
    /\ UNCHANGED <<file, wvars, rvars1, rd, corrupt_pos>>

\* A decompress_block call on the shared instance, for the output of call i.
DecompressCall(i) ==
    /\ i \in 1..Len(cx.calls)
    /\ LET d == decompress_block(w_codec, cx.calls[i].compressed, cx.calls[i].sidecar)
       IN  cx' = [cx EXCEPT !.last = [i |-> i, ok |-> d.ok, data |-> d.data]]
    /\ UNCHANGED <<file, wvars, rvars1, rd, corrupt_pos>>

\* One byte of the finished file changes on disk (bit rot, a stray write).
Corrupt(pos, delta) ==
    /\ w_pc = "done"
    /\ corrupt_pos = 0
    /\ pos \in 1..Len(file)
    /\ file' = [file EXCEPT ![pos] = (file[pos] + delta) % 256]
    /\ corrupt_pos' = pos
    /\ UNCHANGED <<wvars, rvars>>

\* ------------------------------------------------------------ specifications
Init ==
    /\ file = PlaceholderHeader
    /\ w_pc = "open"
    /\ w_codec \in Codecs
    /\ w_block_size \in 1..MaxBlockSize
    /\ w_pending = <<>>
    /\ w_entries = <<>>
    /\ w_current_offset = HEADER_SIZE
    /\ w_cursor = HEADER_SIZE
    /\ w_index_offset = 0
    /\ w_result = -1
    /\ written = <<>>
    /\ slices = <<>>
    /\ r_open = FALSE
    /\ r_header = NoHeader
    /\ r_entries = <<>>
    /\ r_codec = CODEC_PASSTHROUGH
    /\ r_cursor = 0
    /\ open_result = "none"
    /\ open_pc = "none"
    /\ res = NoRes
    /\ prev = "none"
    /\ rd = RdInit
    /\ cx = CxInit
    /\ corrupt_pos = 0

\* The input streams: the two data generators of the integration tests.
\* compressible_bytes repeats a pattern; pseudo_random_bytes is the top byte of a
\* 64-bit linear congruential generator seeded with 0xDEADBEEF.
Pattern == <<116, 104, 101, 32, 113, 117, 105, 99, 107, 32, 98, 114, 111, 119, 110, 32,
             102, 111, 120, 32, 106, 117, 109, 112, 115, 32, 111, 118, 101, 114, 32,
             116, 104, 101, 32, 108, 97, 122, 121, 32, 100, 111, 103, 46, 32>>

compressible_bytes(len) == [i \in 1..len |-> Pattern[((i - 1) % Len(Pattern)) + 1]]

LcgBytes == <<166, 33, 149, 122, 115, 75, 97, 54, 160, 156, 221, 37>>

pseudo_random_bytes(len) == SubSeq(LcgBytes, 1, len)

\* Writer::write of the next n bytes of `stream`, the bytes written so far being
\* its first Len(written) bytes.
WriteNext(stream, n) ==
    /\ w_pc = "open"
    /\ Len(written) + n <= Len(stream)
    /\ written = SubSeq(stream, 1, Len(written))
    /\ Write(SubSeq(stream, Len(written) + 1, Len(written) + n))

WriterStep ==
    \/ \E n \in 0..MaxSlice, stream \in {compressible_bytes(MaxLen), pseudo_random_bytes(MaxLen)} :
          WriteNext(stream, n)
    \/ WriteFlush
    \/ WriteReturn
    \/ FinishTail
    \/ FinishIndex
    \/ FinishFooter
    \/ FinishHeader

ReaderStep ==
    \/ \E codec \in Codecs : Open(codec)
    \/ \E idx \in 0..MaxLen : ReadBlock(idx)
    \/ \E start \in 0..MaxLen, len \in 0..MaxRangeLen : ReadRange(start, len)

Next == WriterStep \/ ReaderStep

Spec == Init /\ [][Next]_vars

\* The ways the byte at pos is changed: one down, and for a header byte also one up.
CorruptDeltas(pos) == IF pos <= HEADER_SIZE THEN {1, 255} ELSE {255}

\* A Writer fed compressible_bytes in slices, a byte of the finished file changed
\* on disk, Readers opened with the Writer's codec and blocks read at any moment.
NextCorrupt ==
    \/ \E n \in 0..MaxSlice : WriteNext(compressible_bytes(MaxCorruptLen), n)
    \/ WriteFlush
    \/ WriteReturn
    \/ FinishTail
    \/ FinishIndex
    \/ FinishFooter
    \/ FinishHeader
    \/ Open(w_codec)
    \/ \E idx \in 0..MaxCorruptLen : ReadBlock(idx)
    \/ \E pos \in 1..Len(file) : \E delta \in CorruptDeltas(pos) : Corrupt(pos, delta)

SpecCorrupt == Init /\ [][NextCorrupt]_vars

\* A Writer that writes compressible_bytes in one call and finishes, and two
\* Readers whose read_block and read_range calls run step by step, interleaved
\* in every way.
NextReaders ==
    \/ WriteNext(compressible_bytes(MaxReadersLen), MaxReadersLen)
    \/ WriteFlush
    \/ WriteReturn
    \/ FinishTail
    \/ FinishIndex
    \/ FinishFooter
    \/ FinishHeader
    \/ \E k \in Readers : ROpen(k)
    \/ \E k \in Readers : \E idx \in 0..MaxReadersLen : RBlockCall(k, idx)
    \/ \E k \in Readers : \E start \in 0..1 : RRangeCall(k, start, MaxReadersLen)
    \/ \E k \in Readers : RSeek(k)
    \/ \E k \in Readers : RPrefix(k)
    \/ \E k \in Readers : RSidecar(k)
    \/ \E k \in Readers : RPayload(k)

SpecReaders == Init /\ [][NextReaders]_vars

\* The raw blocks handed to a codec: every slice of up to MaxRawLen bytes of the
\* start of the two input streams.
RawBlocks ==
    {Slice(stream, a, b) :
        stream \in {compressible_bytes(MaxRawLen), pseudo_random_bytes(MaxRawLen)},
        a \in 0..MaxRawLen, b \in 0..MaxRawLen}

\* One codec instance shared by compress_block and decompress_block calls made
\* in any order.
InitCodec == Init /\ w_block_size = 1

NextCodec ==
    \/ \E raw \in RawBlocks : CompressCall(raw)
    \/ \E i \in 1..MaxCalls : DecompressCall(i)

SpecCodec == InitCodec /\ [][NextCodec]_vars

\* Files that no Writer of this version made: a header with any version, codec
\* id, block size and flags, with the magic or with its first byte changed,
\* followed by an empty index and the footer.
Versions == 0..MaxVersion \cup {256}

ForeignFile(h, magic_ok) ==
    LET hb == Ancf1Header_to_bytes(h)
    IN  (IF magic_ok THEN hb ELSE [hb EXCEPT ![1] = 97])
            \o to_le_bytes(HEADER_SIZE, FOOTER_SIZE)

InitForeign ==
    /\ \E version \in Versions, codec_id \in Codecs, bsize \in 1..MaxBlockSize,
          flags \in {0, FLAG_HAS_CHECKSUM}, magic_ok \in BOOLEAN :
          file = ForeignFile([version |-> version, codec_id |-> codec_id,
                              block_size |-> bsize, block_count |-> 0,
                              flags |-> flags], magic_ok)
    /\ w_pc = "foreign"
    /\ w_codec = CODEC_PASSTHROUGH
    /\ w_block_size = 1
    /\ w_pending = <<>>
    /\ w_entries = <<>>
    /\ w_current_offset = 0
    /\ w_cursor = 0
    /\ w_index_offset = 0
    /\ w_result = -1
    /\ written = <<>>
    /\ slices = <<>>
    /\ r_open = FALSE
    /\ r_header = NoHeader
    /\ r_entries = <<>>
    /\ r_codec = CODEC_PASSTHROUGH
    /\ r_cursor = 0
    /\ open_result = "none"
    /\ open_pc = "none"
    /\ res = NoRes
    /\ prev = "none"
    /\ rd = RdInit
    /\ cx = CxInit
    /\ corrupt_pos = 0

NextForeign ==
    \/ \E codec \in Codecs : Open(codec)
    \/ \E idx \in 0..1 : ReadBlock(idx)

SpecForeign == InitForeign /\ [][NextForeign]_vars

\* The encoders and decoders of format.rs applied to values of their own: a
\* header or an index entry whose fields take the values around the byte
\* boundaries of their widths, encoded into a buffer (kept in `file`) and decoded
\* from it again (the decoded value is kept in `res.data`).
U16Values == 0..MaxField \cup {255, 256, 65535}
U32Values == 0..MaxField \cup {256, 65536, 2 * Huge - 1}
U64Values == 0..MaxField \cup {255, 65535, 2 * Huge - 1}

Headers ==
    [version : U16Values, codec_id : U16Values, block_size : U32Values,
     block_count : U64Values, flags : U64Values]

Entries ==
    [offset : U64Values, compressed_len : U32Values, raw_len : U32Values,
     checksum : U64Values, metadata_len : U16Values]

InitFormat ==
    /\ \/ r_header \in Headers /\ r_entries = <<>>
       \/ r_header = NoHeader /\ r_entries \in {<<e>> : e \in Entries}
    /\ file = <<>>
    /\ w_pc = "format"
    /\ w_codec = CODEC_PASSTHROUGH
    /\ w_block_size = 1
    /\ w_pending = <<>>
    /\ w_entries = <<>>
    /\ w_current_offset = 0
    /\ w_cursor = 0
    /\ w_index_offset = 0
    /\ w_result = -1
    /\ written = <<>>
    /\ slices = <<>>
    /\ r_open = FALSE
    /\ r_codec = CODEC_PASSTHROUGH
    /\ r_cursor = 0
    /\ open_result = "none"
    /\ open_pc = "none"
    /\ res = NoRes
    /\ prev = "none"
    /\ rd = RdInit
    /\ cx = CxInit
    /\ corrupt_pos = 0

\* h.to_bytes() into the buffer.
EncodeHeader ==
    /\ w_pc = "format" /\ r_entries = <<>>
    /\ file' = Ancf1Header_to_bytes(r_header)
    /\ open_pc' = "header"
    /\ UNCHANGED <<wvars, r_open, r_header, r_entries, r_codec, r_cursor, open_result,
                   res, prev, rd, cx, corrupt_pos>>

\* Ancf1Header::from_bytes(&buf).
DecodeHeader ==
    /\ w_pc = "format" /\ open_pc = "header"
    /\ LET d == Ancf1Header_from_bytes(file)
       IN  /\ open_result' = IF d.ok THEN "Ok" ELSE d.err
           /\ res' = [NoRes EXCEPT !.op = "Ancf1Header::from_bytes", !.data = <<d.header>>]
    /\ UNCHANGED <<file, wvars, r_open, r_header, r_entries, r_codec, r_cursor, open_pc,
                   prev, rd, cx, corrupt_pos>>

\* e.to_bytes() into the buffer.
EncodeEntry ==
    /\ w_pc = "format" /\ r_entries # <<>>
    /\ file' = BlockEntry_to_bytes(r_entries[1])
    /\ open_pc' = "entry"
    /\ UNCHANGED <<wvars, r_open, r_header, r_entries, r_codec, r_cursor, open_result,
                   res, prev, rd, cx, corrupt_pos>>

\* BlockEntry::from_bytes(&buf), which has no failing path.
DecodeEntry ==
    /\ w_pc = "format" /\ open_pc = "entry"
    /\ open_result' = "Ok"
    /\ res' = [NoRes EXCEPT !.op = "BlockEntry::from_bytes",
                            !.data = <<BlockEntry_from_bytes(file)>>]
    /\ UNCHANGED <<file, wvars, r_open, r_header, r_entries, r_codec, r_cursor, open_pc,
                   prev, rd, cx, corrupt_pos>>

NextFormat == EncodeHeader \/ DecodeHeader \/ EncodeEntry \/ DecodeEntry

SpecFormat == InitFormat /\ [][NextFormat]_vars

\* Writer::create(path, codec, block_size) with a codec of `codecs` and a block
\* size of `sizes`, no Reader yet.
Created(codecs, sizes) ==
    /\ file = PlaceholderHeader
    /\ w_pc = "open"
    /\ w_codec \in codecs
    /\ w_block_size \in sizes
    /\ w_pending = <<>>
    /\ w_entries = <<>>
    /\ w_current_offset = HEADER_SIZE
    /\ w_cursor = HEADER_SIZE
    /\ w_index_offset = 0
    /\ w_result = -1
    /\ written = <<>>
    /\ slices = <<>>
    /\ r_open = FALSE
    /\ r_header = NoHeader
    /\ r_entries = <<>>
    /\ r_codec = CODEC_PASSTHROUGH
    /\ r_cursor = 0
    /\ open_result = "none"
    /\ open_pc = "none"
    /\ res = NoRes
    /\ prev = "none"
    /\ rd = RdInit
    /\ cx = CxInit
    /\ corrupt_pos = 0

\* Writer::create takes any u32 as block_size, 0 included: it validates nothing.
InitZero == Created(Codecs, 0..MaxBlockSize)

\* A Writer of any block size, followed for as long as it has flushed fewer than
\* MaxBlocks blocks, and Readers of the file it leaves.
NextZero ==
    \/ \E n \in 0..MaxSlice : WriteNext(pseudo_random_bytes(MaxLen), n)
    \/ Len(w_entries) < MaxBlocks /\ WriteFlush
    \/ WriteReturn
    \/ FinishTail
    \/ FinishIndex
    \/ FinishFooter
    \/ FinishHeader
    \/ Open(w_codec)
    \/ \E idx \in 0..MaxLen : ReadBlock(idx)
    \/ \E start \in 0..MaxLen, len \in 0..MaxRangeLen : ReadRange(start, len)

SpecZero == InitZero /\ [][NextZero]_vars

\* Writer::write(data), with the length of the slice recorded.
WriteSlice(data) ==
    /\ w_pc = "open"
    /\ Len(slices) < MaxWrites
    /\ w_pending' = w_pending \o data
    /\ written' = written \o data
    /\ slices' = Append(slices, Len(data))
    /\ w_pc' = "write_loop"
    /\ UNCHANGED <<file, w_codec, w_block_size, w_entries, w_current_offset, w_cursor,
                   w_index_offset, w_result, rvars, corrupt_pos>>

\* A stream cut into up to MaxWrites slices of any length, the empty one and the
\* whole stream included, written in order and finished.
NextSlices ==
    \/ \E n \in 0..MaxLen, stream \in {compressible_bytes(MaxLen), pseudo_random_bytes(MaxLen)} :
          /\ Len(written) + n <= Len(stream)
          /\ written = SubSeq(stream, 1, Len(written))
          /\ WriteSlice(SubSeq(stream, Len(written) + 1, Len(written) + n))
    \/ WriteFlush
    \/ WriteReturn
    \/ FinishTail
    \/ FinishIndex
    \/ FinishFooter
    \/ FinishHeader

SpecSlices == Init /\ [][NextSlices]_vars

\* The Writer of Writer::create(path, codec, block_size), as flush_block takes it.
NewWriter ==
    [ok |-> TRUE, file |-> PlaceholderHeader, cursor |-> HEADER_SIZE,
     current_offset |-> HEADER_SIZE, entries |-> <<>>]

\* The loop of one write call on Writer w with `pending` in its buffer.
RECURSIVE WriteLoop(_, _, _, _)
WriteLoop(w, codec, block_size, pending) ==
    IF Len(pending) >= block_size /\ w.ok
    THEN WriteLoop(flush_block(w, codec, SubSeq(pending, 1, block_size)), codec, block_size,
                   SubSeq(pending, block_size + 1, Len(pending)))
    ELSE [w |-> w, pending |-> pending]

\* create, one write call with all of D, finish: the entries and the file.
OneCall(D, codec, block_size) ==
    LET a  == WriteLoop(NewWriter, codec, block_size, D)
        b  == IF a.pending # <<>> THEN flush_block(a.w, codec, a.pending) ELSE a.w
        f1 == WriteAt(b.file, b.cursor, IndexBytes(b.entries))
        f2 == WriteAt(f1, b.cursor + Len(b.entries) * BLOCK_ENTRY_SIZE,
                      to_le_bytes(b.current_offset, FOOTER_SIZE))
        f3 == WriteAt(f2, 0, Ancf1Header_to_bytes(
                              [version |-> 1, codec_id |-> codec, block_size |-> block_size,
                               block_count |-> Len(b.entries), flags |-> FLAG_HAS_CHECKSUM]))
    IN  [entries |-> b.entries, file |-> f3, before_finish |-> a]

\* The combinations of the two flag bits the format defines.
FlagValues ==
    {0, FLAG_HAS_CHECKSUM, FLAG_PER_BLOCK_META, FLAG_HAS_CHECKSUM + FLAG_PER_BLOCK_META}

\* The flags field of the finished file's header is rewritten: the file of a
\* writer of the format that sets other flags than this Writer does.
SetFlags(flags) ==
    /\ w_pc = "done"
    /\ file' = WriteAt(file, 30, to_le_bytes(flags, 8))
    /\ UNCHANGED <<wvars, rvars, corrupt_pos>>

\* A finished file whose header carries any combination of the flags and in
\* which one byte behind the header (of a block, of the index, of the footer)
\* may have changed, then opened and read.
NextFlags ==
    \/ WriteNext(compressible_bytes(MaxFlagsLen), MaxFlagsLen)
    \/ WriteFlush
    \/ WriteReturn
    \/ FinishTail
    \/ FinishIndex
    \/ FinishFooter
    \/ FinishHeader
    \/ \E flags \in FlagValues : ~r_open /\ SetFlags(flags)
    \/ \E pos \in (HEADER_SIZE + 1)..Len(file) : ~r_open /\ Corrupt(pos, 255)
    \/ Open(w_codec)
    \/ \E idx \in 0..MaxFlagsLen : ReadBlock(idx)

SpecFlags == Init /\ [][NextFlags]_vars

\* A Writer with a codec that leaves a short sidecar or a table of 64 KiB or so
\* in BlockMeta.
InitTable == Created({CODEC_FLOAT_QUANT, CODEC_BITPACK}, 1..MaxTableLen)

NextTable ==
    \/ \E n \in 1..MaxTableLen : WriteNext(compressible_bytes(MaxTableLen), n)
    \/ WriteFlush
    \/ WriteReturn
    \/ FinishTail
    \/ FinishIndex
    \/ FinishFooter
    \/ FinishHeader
    \/ Open(w_codec)
    \/ \E idx \in 0..MaxTableLen : ReadBlock(idx)

SpecTable == InitTable /\ [][NextTable]_vars

\* The u64 values read_range is called with as len: short ones, one of 2^24 to
\* 2^63 - 1, and the largest ones (-1 is u64::MAX).
U64Lens == (1..MaxWideLen) \cup {Huge} \cup {-k : k \in 1..(MaxWideLen + 1)}

NextWide ==
    \/ \E n \in 1..MaxWideLen : WriteNext(compressible_bytes(MaxWideLen), n)
    \/ WriteFlush
    \/ WriteReturn
    \/ FinishTail
    \/ FinishIndex
    \/ FinishFooter
    \/ FinishHeader
    \/ Open(w_codec)
    \/ \E start \in 0..MaxWideLen, len \in U64Lens : ReadRange(start, len)

SpecWide == Init /\ [][NextWide]_vars

\* The bytes written where compression can fail: 7-bit bytes, then one that is
\* not.
FailBytes == SubSeq(LcgBytes, 4, 3 + MaxFailLen)

\* A Writer with a codec that can fail, or with one that cannot.
InitFail == Created({CODEC_RLE, CODEC_FLOAT_QUANT}, 1..MaxFailBlock)

NextFail ==
    \/ \E n \in 1..MaxFailLen : WriteNext(FailBytes, n)
    \/ WriteFlush
    \/ WriteReturn
    \/ FinishTail
    \/ FinishIndex
    \/ FinishFooter
    \/ FinishHeader
    \/ Open(w_codec)
    \/ \E idx \in 0..MaxFailLen : ReadBlock(idx)

SpecFail == InitFail /\ [][NextFail]_vars

\* ------------------------------------------------------------------ claims
\* D[i*B : min((i+1)*B, |D|)] of the bytes written.
ExpectedBlock(i) ==
    Slice(written, i * w_block_size, Min((i + 1) * w_block_size, Len(written)))

Ceil(a, b) == (a + b - 1) \div b

\* read_block(i), read_block(i+1), ..., read_block(block_count-1) called in this
\* order on the Reader, starting with its cursor at `cursor`: the concatenation.
RECURSIVE ReadAllFrom(_, _, _)
ReadAllFrom(i, cursor, acc) ==
    IF i >= r_header.block_count THEN [status |-> "Ok", data |-> acc]
    ELSE LET r == read_block(file, r_header, r_entries, r_codec, cursor, i)
         IN  IF r.status # "Ok" THEN [status |-> r.status, data |-> acc]
             ELSE ReadAllFrom(i + 1, r.cursor, acc \o r.data)

\* C1: round-trip completeness.  For the input streams, slicings, block sizes
\* (>= 1) and codecs of the model: once finish has returned, a Reader opened with
\* the Writer's codec returns, by read_block(0), ..., read_block(block_count-1)
\* in order, exactly the bytes written, whatever the Reader did before.
C1_RoundTrip ==
    r_open => /\ r_codec = w_codec
              /\ ReadAllFrom(0, r_cursor, <<>>) = [status |-> "Ok", data |-> written]

\* A Reader has just read the last of at least two blocks of a full-length input,
\* after an earlier successful call.
C1_Witness ==
    /\ r_open
    /\ Len(written) = MaxLen
    /\ r_header.block_count >= 2
    /\ res.op = "read_block" /\ res.idx = r_header.block_count - 1
    /\ res.status = "Ok" /\ prev = "Ok"
    /\ ReadAllFrom(0, r_cursor, <<>>).data = written

\* C2: block independence.  For every i < block_count, read_block(i) returns
\* D[i*B : min((i+1)*B, |D|)]: the call the Reader made last did, and a call made
\* now would, whatever calls came before and wherever they left the file cursor.
C2_BlockIndependence ==
    r_open =>
        /\ \A i \in 0..(r_header.block_count - 1) :
              LET r == read_block(file, r_header, r_entries, r_codec, r_cursor, i)
              IN  r.status = "Ok" /\ r.data = ExpectedBlock(i)
        /\ (res.op = "read_block" /\ res.idx < r_header.block_count) =>
              (res.status = "Ok" /\ res.data = ExpectedBlock(res.idx))

\* read_block(0) returned block 0 after an earlier successful call had left the
\* cursor behind a later block.
C2_Witness ==
    /\ r_open
    /\ r_header.block_count >= 2
    /\ prev = "Ok"
    /\ res.op = "read_block" /\ res.idx = 0 /\ res.status = "Ok"
    /\ res.data = ExpectedBlock(0)
    /\ res.from > r_entries[2].offset

BlockCountLaw(entries) ==
    LET n == Ceil(Len(written), w_block_size)
    IN  /\ Len(entries) = n
        /\ \A i \in 1..(n - 1) : entries[i].raw_len = w_block_size
        /\ entries[n].raw_len = Len(written) - (n - 1) * w_block_size
        /\ entries[n].raw_len > 0
        /\ entries[n].raw_len <= w_block_size
        /\ \A i \in 1..n : entries[i].raw_len > 0

\* C4: block count law.  For |D| > 0, finish returns ceil(|D| / B); every index
\* entry but the last has raw_len = B, the last has raw_len = |D| - (n-1)*B with
\* 0 < raw_len <= B; no entry is empty.  It holds of the Writer's index and of the
\* index a Reader loads from the file.
C4_BlockCountLaw ==
    (w_pc = "done" /\ Len(written) > 0) =>
        /\ w_result = Ceil(Len(written), w_block_size)
        /\ BlockCountLaw(w_entries)
        /\ r_open => (r_header.block_count = w_result /\ BlockCountLaw(r_entries))

\* finish has returned 2 for an input of exactly two full blocks, and a Reader
\* has loaded the index.
C4_Witness ==
    /\ w_pc = "done"
    /\ Len(written) = 2 * w_block_size
    /\ w_result = 2
    /\ r_open
    /\ r_entries[2].raw_len = w_block_size

\* On-disk geometry of a block, from its index entry: the bytes of the optional
\* prefix and sidecar, and the 1-based positions of the payload and of the block.
PrefixLen(e) == IF e.metadata_len > 0 THEN 2 + e.metadata_len ELSE 0
PayloadPositions(e) ==
    (e.offset + PrefixLen(e) + 1)..(e.offset + PrefixLen(e) + e.compressed_len)
BlockPositions(e) == (e.offset + 1)..(e.offset + PrefixLen(e) + e.compressed_len)

\* C5: checksum enforcement.  With HAS_CHECKSUM set in the header the Reader
\* holds, once a byte of block i's compressed payload has changed on disk every
\* read_block(i) fails with ChecksumMismatch, and the last call did if it was one.
C5_ChecksumEnforced ==
    (r_open /\ has_flag(r_header, FLAG_HAS_CHECKSUM)) =>
        \A i \in 0..(Len(w_entries) - 1) :
            corrupt_pos \in PayloadPositions(w_entries[i + 1]) =>
                /\ read_block(file, r_header, r_entries, r_codec, r_cursor, i).status
                       = "ChecksumMismatch"
                /\ (res.op = "read_block" /\ res.idx = i /\ res.status = "Ok") =>
                       res.data = ExpectedBlock(i)

\* read_block(1) has failed with ChecksumMismatch on a block whose payload was
\* changed on disk.
C5_Witness ==
    /\ r_open
    /\ Len(w_entries) >= 2
    /\ corrupt_pos \in PayloadPositions(w_entries[2])
    /\ res.op = "read_block" /\ res.idx = 1
    /\ res.status = "ChecksumMismatch" /\ res.data = <<>>

\* Block j is intact for the Reader: its bytes on disk are as written, and the
\* Reader holds the Writer's codec and the Writer's index entry for it.
Intact(j) ==
    /\ j < Len(r_entries) /\ j < Len(w_entries)
    /\ r_entries[j + 1] = w_entries[j + 1]
    /\ r_codec = w_codec
    /\ corrupt_pos \notin BlockPositions(w_entries[j + 1])

IsFailure(status) == status \notin {"none", "Ok"}

\* C6: a failed read does not poison the Reader.  After a call that failed, a
\* read_block(j) of an intact block j on the same Reader succeeds with the
\* block's original bytes: the last call did when the one before it had failed,
\* and a call made now would when the last call has failed.
C6_NotPoisoned ==
    r_open =>
        /\ (IsFailure(prev) /\ res.op = "read_block" /\ Intact(res.idx)) =>
              (res.status = "Ok" /\ res.data = ExpectedBlock(res.idx))
        /\ IsFailure(res.status) =>
              \A j \in 0..(Len(r_entries) - 1) :
                  Intact(j) =>
                      LET r == read_block(file, r_header, r_entries, r_codec, r_cursor, j)
                      IN  r.status = "Ok" /\ r.data = ExpectedBlock(j)

\* After a read that failed with ChecksumMismatch, the same Reader has read an
\* intact block.
C6_Witness ==
    /\ r_open
    /\ corrupt_pos # 0
    /\ prev = "ChecksumMismatch"
    /\ res.op = "read_block" /\ Intact(res.idx)
    /\ res.status = "Ok" /\ res.data = ExpectedBlock(res.idx)

\* C7: codec-mismatch rejection.  On a finished file, Reader.open with any codec
\* other than the one the header names fails with CodecMismatch and gives no
\* Reader; a Reader exists only with the header's codec.
C7_CodecMismatch ==
    /\ w_pc = "done" =>
          \A c \in Codecs \ {w_codec} : OpenOutcomes(file, c) = {OpenFail("CodecMismatch")}
    /\ open_result = "CodecMismatch" => ~r_open
    /\ r_open => r_codec = r_header.codec_id

\* An open of the finished file was refused for its codec.
C7_Witness ==
    /\ open_pc = "done"
    /\ open_result = "CodecMismatch"
    /\ ~r_open
    /\ Len(written) > 0

\* C8: magic rejection.  Whenever the first 14 bytes of the file are not the
\* magic, Ancf1Header::from_bytes fails with InvalidMagic and so does Reader.open
\* with every codec, whatever the rest of the header holds.
C8_MagicRejected ==
    SubSeq(file, 1, 14) # MAGIC =>
        /\ Ancf1Header_from_bytes(SubSeq(file, 1, HEADER_SIZE)).err = "InvalidMagic"
        /\ \A c \in Codecs : OpenOutcomes(file, c) = {OpenFail("InvalidMagic")}

\* One of the eight zero bytes of a finished file's magic was changed and the
\* open that followed failed with InvalidMagic.
C8_Witness ==
    /\ corrupt_pos \in 7..14
    /\ open_pc = "done"
    /\ open_result = "InvalidMagic"
    /\ ~r_open

\* C9: an unfinished file cannot be opened.  Before finish has written the final
\* header no Reader.open succeeds, with any codec; finish writes the index, then
\* the footer, then the header, so the footer and the index are in place before
\* the header is.
C9_UnfinishedUnusable ==
    /\ w_pc # "done" =>
          \A c \in Codecs : \A o \in OpenOutcomes(file, c) : o.status # "Ok"
    /\ open_result = "Ok" => open_pc = "done"
    /\ r_open => w_pc = "done"
    /\ w_pc = "fin_footer" =>
          Len(file) = w_index_offset + Len(w_entries) * BLOCK_ENTRY_SIZE
    /\ w_pc = "fin_header" =>
          /\ Len(file) = w_index_offset + Len(w_entries) * BLOCK_ENTRY_SIZE + FOOTER_SIZE
          /\ from_le_bytes(SubSeq(file, Len(file) - FOOTER_SIZE + 1, Len(file)))
                 = w_index_offset

\* An open failed on a file that had its blocks, index and footer but not yet
\* its header.
C9_Witness ==
    /\ open_pc = "fin_header"
    /\ open_result = "InvalidMagic"
    /\ ~r_open
    /\ Len(w_entries) >= 2

\* The header, footer and index as they stand on disk.
DiskHeader == Ancf1Header_from_bytes(SubSeq(file, 1, HEADER_SIZE)).header
DiskFooter == from_le_bytes(SubSeq(file, Len(file) - FOOTER_SIZE + 1, Len(file)))
DiskIndex == LoadEntries(file, DiskFooter, DiskHeader.block_count)

\* C10: layout of a finished file.  The first entry's offset is 56; every
\* entry's offset plus its prefix-and-sidecar bytes plus its compressed_len is
\* the next entry's offset, and for the last entry the index offset of the
\* footer; so the blocks lie one after another between the header and the
\* index, which the footer follows.
C10_Layout ==
    w_pc = "done" =>
        LET idx == DiskIndex
            n   == Len(idx)
        IN  /\ n = Len(w_entries)
            /\ n > 0 => idx[1].offset = HEADER_SIZE
            /\ \A i \in 1..n :
                  idx[i].offset + PrefixLen(idx[i]) + idx[i].compressed_len
                      = IF i < n THEN idx[i + 1].offset ELSE DiskFooter
            /\ \A i \in 1..n : \A p \in BlockPositions(idx[i]) :
                  /\ p > HEADER_SIZE /\ p <= DiskFooter
                  /\ \A j \in 1..n : (j # i) => p \notin BlockPositions(idx[j])
            /\ Len(file) = DiskFooter + n * BLOCK_ENTRY_SIZE + FOOTER_SIZE

\* A finished file of at least two blocks, each with a sidecar.
C10_Witness ==
    /\ w_pc = "done"
    /\ DiskHeader.block_count >= 2
    /\ DiskIndex[1].metadata_len > 0
    /\ DiskIndex[2].offset = HEADER_SIZE + 2 + DiskIndex[1].metadata_len
                                 + DiskIndex[1].compressed_len

\* C11: seal.  finish returns the number of blocks flushed, which is the number
\* of index entries on disk; the header it leaves at offset 0 decodes to version 1,
\* the Writer's codec id, the block size given to create, block_count equal to
\* the returned value and flags equal to HAS_CHECKSUM alone; a Reader opened then
\* reports that block_count and block_size.
C11_Seal ==
    w_pc = "done" =>
        /\ w_result = Len(w_entries)
        /\ Len(file) = DiskFooter + w_result * BLOCK_ENTRY_SIZE + FOOTER_SIZE
        /\ Ancf1Header_from_bytes(SubSeq(file, 1, HEADER_SIZE)).ok
        /\ DiskHeader = [version |-> 1, codec_id |-> w_codec, block_size |-> w_block_size,
                         block_count |-> w_result, flags |-> FLAG_HAS_CHECKSUM]
        /\ r_open => /\ Reader_block_count(r_header) = w_result
                     /\ Reader_block_size(r_header) = w_block_size

\* finish has returned 2 and a Reader opened on the sealed file reports two blocks
\* of the Writer's block size.
C11_Witness ==
    /\ w_pc = "done" /\ w_result = 2
    /\ r_open
    /\ Reader_block_count(r_header) = 2 /\ Reader_block_size(r_header) = w_block_size
    /\ has_flag(r_header, FLAG_HAS_CHECKSUM)

\* What reading the block of entry e alone does: one seek to its offset, the
\* reads of its prefix and sidecar if it has them, one read of its payload, and
\* the codec call.
ExpectedBlockIo(e) ==
    <<IoSeek(e.offset)>>
    \o (IF e.metadata_len > 0
        THEN <<IoRead(e.offset, 2), IoRead(e.offset + 2, e.metadata_len)>> ELSE <<>>)
    \o <<IoRead(e.offset + PrefixLen(e), e.compressed_len), IoCodec>>

\* Every byte the trace reads lies in one of the blocks first..last of the index.
ReadsOnlyBlocks(io, entries, first, last) ==
    \A k \in 1..Len(io) :
        io[k].op = "read" =>
            \A p \in (io[k].pos + 1)..(io[k].pos + io[k].n) :
                \E j \in first..last : p \in BlockPositions(entries[j + 1])

IsCall(ev) == ev.op = "read_block"
IsSeek(ev) == ev.op = "seek"

\* C12: single-block I/O.  read_block(i), i < block_count, seeks once, to
\* entries[i].offset, and reads the prefix and sidecar (if any) and then the
\* compressed_len payload bytes of block i, nothing else.  read_range(start, len)
\* with len > 0 and start < raw_size calls read_block for the indexes
\* start / block_size .. (end-1) / block_size, end = min(start+len, raw_size),
\* once each in ascending order, and reads bytes of those blocks only.
C12_SingleBlockIo ==
    r_open =>
        /\ \A i \in 0..(Len(r_entries) - 1) :
              LET r == read_block(file, r_header, r_entries, r_codec, r_cursor, i)
              IN  /\ r.io = ExpectedBlockIo(r_entries[i + 1])
                  /\ ReadsOnlyBlocks(r.io, r_entries, i, i)
        /\ (res.op = "read_block" /\ res.idx < Len(r_entries)) =>
              /\ res.io = ExpectedBlockIo(r_entries[res.idx + 1])
              /\ Len(SelectSeq(res.io, IsSeek)) = 1
              /\ ReadsOnlyBlocks(res.io, r_entries, res.idx, res.idx)
        /\ (res.op = "read_range" /\ res.len > 0 /\ res.start < raw_size(r_entries)) =>
              LET end   == Min(res.start + res.len, raw_size(r_entries))
                  first == res.start \div Reader_block_size(r_header)
                  last  == (end - 1) \div Reader_block_size(r_header)
              IN  /\ SelectSeq(res.io, IsCall)
                         = [k \in 1..(last - first + 1) |-> IoCall(first + k - 1)]
                  /\ res.io = Concat([k \in 1..(last - first + 1) |->
                                 <<IoCall(first + k - 1)>>
                                     \o ExpectedBlockIo(r_entries[first + k])])
                  /\ ReadsOnlyBlocks(res.io, r_entries, first, last)

\* A one-byte range inside the middle block of three made exactly one
\* read_block call, for that block, on a file whose blocks carry sidecars.
C12_Witness ==
    /\ r_open
    /\ Len(r_entries) = 3
    /\ r_entries[2].metadata_len > 0
    /\ res.op = "read_range" /\ res.start = 1 /\ res.len = 1 /\ res.status = "Ok"
    /\ SelectSeq(res.io, IsCall) = <<IoCall(1)>>
    /\ Len(res.io) = 6

\* C13: read_block(i) fails with OutOfRange for every i >= block_count, before
\* any seek or read (the trace is empty and the cursor stays), and for no
\* i < block_count.
C13_OutOfRange ==
    r_open =>
        LET n == Reader_block_count(r_header)
        IN  /\ \A i \in {n, n + 1, Huge} :
                  read_block(file, r_header, r_entries, r_codec, r_cursor, i)
                      = ReadFail("OutOfRange", r_cursor, <<>>)
            /\ \A i \in 0..(n - 1) :
                  read_block(file, r_header, r_entries, r_codec, r_cursor, i).status
                      # "OutOfRange"
            /\ (res.op = "read_block" /\ res.idx >= n) =>
                  /\ res.status = "OutOfRange" /\ res.data = <<>>
                  /\ res.io = <<>> /\ r_cursor = res.from
            /\ (res.op = "read_block" /\ res.idx < n) => res.status # "OutOfRange"

\* read_block(block_count) on a file of two blocks has failed with OutOfRange
\* and left the cursor where an earlier successful read had put it.
C13_Witness ==
    /\ r_open
    /\ Reader_block_count(r_header) = 2
    /\ prev = "Ok"
    /\ res.op = "read_block" /\ res.idx = 2 /\ res.status = "OutOfRange"
    /\ res.io = <<>> /\ r_cursor = res.from /\ r_cursor > HEADER_SIZE

\* C14: read_range(start, 0) returns the empty sequence and reads nothing, for
\* every start, also one at or past raw_size; read_range(start, len) with
\* len > 0 and start >= raw_size fails with OutOfRange without reading a block.
C14_RangeArguments ==
    r_open =>
        /\ \A start \in 0..(raw_size(r_entries) + 1) \cup {Huge} :
              /\ read_range(file, r_header, r_entries, r_codec, r_cursor, start, 0)
                     = [status |-> "Ok", data |-> <<>>, cursor |-> r_cursor, io |-> <<>>]
              /\ start >= raw_size(r_entries) =>
                     \A len \in 1..MaxRangeLen :
                         read_range(file, r_header, r_entries, r_codec, r_cursor, start, len)
                             = ReadFail("OutOfRange", r_cursor, <<>>)
        /\ (res.op = "read_range" /\ res.len = 0) =>
              /\ res.status = "Ok" /\ res.data = <<>>
              /\ res.io = <<>> /\ r_cursor = res.from
        /\ (res.op = "read_range" /\ res.len > 0 /\ res.start >= raw_size(r_entries)) =>
              /\ res.status = "OutOfRange" /\ res.data = <<>>
              /\ res.io = <<>> /\ r_cursor = res.from

\* read_range(raw_size, len > 0) has failed with OutOfRange on a file that holds
\* data.
C14_Witness ==
    /\ r_open
    /\ raw_size(r_entries) > 0
    /\ res.op = "read_range" /\ res.len > 0 /\ res.start = raw_size(r_entries)
    /\ res.status = "OutOfRange" /\ res.io = <<>>

\* The result the call Reader k is in, or made last, has when it runs alone from
\* the cursor it found.
Alone(k) ==
    LET rec == rd.st[k]
    IN  IF rec.op = "read_block"
        THEN read_block(file, rec.header, rec.entries, rec.codec, rec.from, rec.idx)
        ELSE read_range(file, rec.header, rec.entries, rec.codec, rec.from, rec.start, rec.len)

\* C15: independent Readers on one finished file.  Whatever the interleaving of
\* the seeks and reads of the calls of different Readers, every call that has
\* returned has the status and the bytes it has when run alone, and has left its
\* Reader's cursor where it leaves it alone; the file is as the Writer left it.
C15_IndependentReaders ==
    \A k \in Readers :
        /\ rd.st[k].pc # "closed" =>
              /\ w_pc = "done"
              /\ rd.st[k].entries = w_entries
              /\ DiskHeader = FinalHeader /\ DiskIndex = w_entries
        /\ (rd.st[k].pc = "idle" /\ rd.st[k].op # "none") =>
              /\ rd.st[k].status = Alone(k).status
              /\ rd.st[k].data = Alone(k).data
              /\ rd.pos[HandleOf(k)] = Alone(k).cursor

\* Reader a has returned from a read_range over two blocks during which Reader b
\* moved its own handle, and b is in the middle of a call.
C15_Witness ==
    /\ rd.st["a"].pc = "idle" /\ rd.st["a"].op = "read_range"
    /\ rd.st["a"].overlap
    /\ rd.st["a"].status = "Ok" /\ Len(rd.st["a"].data) = 2
    /\ Len(rd.st["a"].entries) = 2
    /\ rd.st["b"].pc = "payload" /\ rd.st["b"].blk = 0
    /\ rd.pos["a"] # rd.pos["b"]

\* C16: version check.  On a file whose header has the magic and a version other
\* than 1, Reader.open fails with UnsupportedVersion with every codec, the ones
\* whose id is not the header's codec_id included, and gives no Reader.
C16_UnsupportedVersion ==
    /\ (Len(file) >= HEADER_SIZE /\ MagicMatches(SubSeq(file, 1, HEADER_SIZE))
            /\ DiskHeader.version # 1) =>
          \A c \in Codecs : OpenOutcomes(file, c) = {OpenFail("UnsupportedVersion")}
    /\ open_result = "UnsupportedVersion" => ~r_open

\* An open of a file of version 2 with a codec other than the header's has
\* failed with UnsupportedVersion.
C16_Witness ==
    /\ MagicMatches(SubSeq(file, 1, HEADER_SIZE))
    /\ DiskHeader.version = 2
    /\ r_codec # DiskHeader.codec_id
    /\ open_result = "UnsupportedVersion"
    /\ ~r_open

\* The 2-byte prefix on disk at the offset of entry e.
DiskPrefix(e) == ReadExact(file, e.offset, 2)

\* C17: sidecar prefix validation.  When entries[i].metadata_len > 0 and the
\* 2-byte little-endian prefix at entries[i].offset is another number,
\* read_block(i) fails with MetadataLenMismatch; a call that fails so has done
\* one seek and the 2-byte read and nothing else: it has read neither the sidecar
\* nor the payload and has not called the codec.
C17_PrefixValidated ==
    r_open =>
        /\ \A i \in 0..(Len(r_entries) - 1) :
              LET e == r_entries[i + 1]
              IN  (/\ e.metadata_len > 0
                   /\ DiskPrefix(e).ok
                   /\ from_le_bytes(DiskPrefix(e).data) # e.metadata_len) =>
                      read_block(file, r_header, r_entries, r_codec, r_cursor, i)
                          = ReadFail("MetadataLenMismatch", e.offset + 2,
                                     <<IoSeek(e.offset), IoRead(e.offset, 2)>>)
        /\ (res.op = "read_block" /\ res.status = "MetadataLenMismatch") =>
              /\ res.idx < Len(r_entries)
              /\ r_entries[res.idx + 1].metadata_len > 0
              /\ res.data = <<>>
              /\ res.io = <<IoSeek(r_entries[res.idx + 1].offset),
                            IoRead(r_entries[res.idx + 1].offset, 2)>>
              /\ r_cursor = r_entries[res.idx + 1].offset + 2

\* One of the two prefix bytes of a block was changed on disk and read_block of
\* that block has failed with MetadataLenMismatch.
C17_Witness ==
    /\ r_open
    /\ res.op = "read_block" /\ res.idx < Len(r_entries)
    /\ res.status = "MetadataLenMismatch"
    /\ corrupt_pos \in (r_entries[res.idx + 1].offset + 1)..(r_entries[res.idx + 1].offset + 2)
    /\ Len(res.io) = 2

\* What the codec makes of the bytes on disk that entry e points at.
DiskDecompress(e) ==
    LET p == PrefixLen(e)
    IN  decompress_block(r_codec,
                         ReadExact(file, e.offset + p, e.compressed_len).data,
                         IF p > 0 THEN ReadExact(file, e.offset + 2, e.metadata_len).data
                         ELSE <<>>)

\* C18: size check.  read_block(i) never returns bytes whose number is not
\* entries[i].raw_len: when it gets to the codec and the codec's result has
\* another length, the call fails with SizeMismatch.
C18_SizeChecked ==
    r_open =>
        /\ \A i \in 0..(Len(r_entries) - 1) :
              LET e == r_entries[i + 1]
                  r == read_block(file, r_header, r_entries, r_codec, r_cursor, i)
              IN  /\ r.status = "Ok" => Len(r.data) = e.raw_len
                  /\ (/\ r.io[Len(r.io)] = IoCodec
                       /\ DiskDecompress(e).ok
                       /\ Len(DiskDecompress(e).data) # e.raw_len) =>
                          (r.status = "SizeMismatch" /\ r.data = <<>>)
        /\ (res.op = "read_block" /\ res.status = "Ok") =>
              /\ res.idx < Len(r_entries)
              /\ Len(res.data) = r_entries[res.idx + 1].raw_len
        /\ (res.op = "read_block" /\ res.status = "SizeMismatch") =>
              res.data = <<>>

\* The raw_len of a block's index entry was changed on disk, and read_block of
\* that block, whose payload and checksum are intact, has failed with
\* SizeMismatch.
C18_Witness ==
    /\ r_open
    /\ res.op = "read_block" /\ res.idx < Len(r_entries)
    /\ res.status = "SizeMismatch"
    /\ r_entries[res.idx + 1].raw_len # w_entries[res.idx + 1].raw_len
    /\ [r_entries[res.idx + 1] EXCEPT !.raw_len = 0] = [w_entries[res.idx + 1] EXCEPT !.raw_len = 0]

\* C19: codec block-independence.  For every sequence of compress_block calls on
\* one codec instance, decompress_block of the i-th call's output and sidecar is
\* the i-th call's input, whatever was compressed or decompressed before, after
\* or in between; the passthrough codec's output is its input and its sidecar is
\* empty.
C19_CodecIndependence ==
    /\ \A i \in 1..Len(cx.calls) :
          /\ decompress_block(w_codec, cx.calls[i].compressed, cx.calls[i].sidecar)
                 = CodecOk(cx.calls[i].raw, <<>>)
          /\ w_codec = CODEC_PASSTHROUGH =>
                 (cx.calls[i].compressed = cx.calls[i].raw /\ cx.calls[i].sidecar = <<>>)
    /\ cx.last.i > 0 => (cx.last.ok /\ cx.last.data = cx.calls[cx.last.i].raw)

\* After two compress_block calls with different non-empty inputs, the first
\* call's output has been decompressed to the first call's input.
C19_Witness ==
    /\ Len(cx.calls) = 2
    /\ cx.calls[1].raw # <<>> /\ cx.calls[2].raw # <<>>
    /\ cx.calls[1].raw # cx.calls[2].raw
    /\ cx.calls[1].compressed # cx.calls[1].raw
    /\ cx.last.i = 1 /\ cx.last.ok /\ cx.last.data = cx.calls[1].raw

\* What a Reader reports of a finished file is what the Writer recorded.
IndexAsWritten ==
    r_open =>
        /\ r_entries = w_entries
        /\ Len(r_entries) = Reader_block_count(r_header)
        /\ r_header = FinalHeader
        /\ raw_size(r_entries) = Len(written)
        /\ compressed_size(r_entries) = compressed_size(w_entries)
        /\ compressed_size(r_entries) + 2 * Cardinality({i \in 1..Len(r_entries) :
                                                          r_entries[i].metadata_len > 0})
               = DiskFooter - HEADER_SIZE

\* A read_block or read_range call leaves the Reader's index, header and codec
\* as they were.
ReadKeepsIndex ==
    (r_open /\ res'.op # "none") =>
        /\ r_entries' = r_entries
        /\ r_header' = r_header
        /\ r_codec' = r_codec
        /\ raw_size(r_entries') = raw_size(r_entries)
        /\ compressed_size(r_entries') = compressed_size(r_entries)

\* C20: index immutability and fidelity.  After Reader.open on a finished file
\* entries() is the sequence of records the Writer recorded, block_count of them,
\* in the same order and with the same five fields; and no read_block or
\* read_range call, successful or failed, changes entries(), the header,
\* block_count(), raw_size() or compressed_size().
C20_IndexFidelity == []IndexAsWritten /\ [][ReadKeepsIndex]_vars

\* A Reader of a file of two blocks with sidecars holds the Writer's records
\* after a failed call followed by a successful one.
C20_Witness ==
    /\ r_open
    /\ Len(r_entries) = 2 /\ r_entries = w_entries
    /\ r_entries[1].metadata_len > 0
    /\ r_entries[2].offset > r_entries[1].offset
    /\ IsFailure(prev) /\ res.status = "Ok" /\ res.op = "read_range"

\* Byte k (0-based) of the little-endian form of v, by division.
LeByte(v, k) == (v \div (256 ^ k)) % 256

\* The n bytes of the buffer from offset `at` are v, little-endian.
LeAt(buf, at, n, v) ==
    \A k \in 0..(n - 1) :
        buf[at + k + 1] = IF k < 4 THEN LeByte(v, k) ELSE 0

\* C21: encode/decode round trip.  For every header h (fields at and around the
\* byte boundaries, below 2^25), h.to_bytes() is 56 bytes that start with the
\* 14-byte magic, hold version, codec_id, block_size, block_count and flags
\* little-endian at offsets 14, 16, 18, 22 and 30 and end with 18 zero bytes, and
\* Ancf1Header::from_bytes of it succeeds and gives h; for every entry e,
\* e.to_bytes() is 32 bytes that hold offset, compressed_len, raw_len, checksum
\* and metadata_len little-endian at offsets 0, 8, 12, 16 and 24 and end with 6
\* zero bytes, and BlockEntry::from_bytes of it gives e.
C21_EncodeDecode ==
    /\ open_pc = "header" =>
          /\ Len(file) = HEADER_SIZE
          /\ SubSeq(file, 1, 14) = MAGIC
          /\ LeAt(file, 14, 2, r_header.version)
          /\ LeAt(file, 16, 2, r_header.codec_id)
          /\ LeAt(file, 18, 4, r_header.block_size)
          /\ LeAt(file, 22, 8, r_header.block_count)
          /\ LeAt(file, 30, 8, r_header.flags)
          /\ SubSeq(file, 39, 56) = Zeros(18)
          /\ Ancf1Header_from_bytes(file) = [ok |-> TRUE, err |-> "", header |-> r_header]
    /\ res.op = "Ancf1Header::from_bytes" => (open_result = "Ok" /\ res.data = <<r_header>>)
    /\ open_pc = "entry" =>
          /\ Len(file) = BLOCK_ENTRY_SIZE
          /\ LeAt(file, 0, 8, r_entries[1].offset)
          /\ LeAt(file, 8, 4, r_entries[1].compressed_len)
          /\ LeAt(file, 12, 4, r_entries[1].raw_len)
          /\ LeAt(file, 16, 8, r_entries[1].checksum)
          /\ LeAt(file, 24, 2, r_entries[1].metadata_len)
          /\ SubSeq(file, 27, 32) = Zeros(6)
          /\ BlockEntry_from_bytes(file) = r_entries[1]
    /\ res.op = "BlockEntry::from_bytes" => (open_result = "Ok" /\ res.data = r_entries)

\* A header whose five fields differ and fill one, two and four bytes has been
\* encoded and decoded back.
C21_Witness ==
    /\ res.op = "Ancf1Header::from_bytes" /\ res.data = <<r_header>>
    /\ r_header.version = 256 /\ r_header.codec_id = 255
    /\ r_header.block_size = 65536 /\ r_header.block_count = 2 * Huge - 1
    /\ r_header.flags = 1

\* The raw bytes of the blocks flushed so far, in order: what the codec makes of
\* each block as it lies on disk.
FlushedRaw ==
    Concat([i \in 1..Len(w_entries) |->
              LET e == w_entries[i]
                  p == PrefixLen(e)
              IN  decompress_block(w_codec, SubSeq(file, e.offset + p + 1,
                                                   e.offset + p + e.compressed_len),
                                   SubSeq(file, e.offset + 3, e.offset + p)).data])

\* C22: Writer buffering invariant.  After Writer.create and after every write
\* call that has returned Ok, the pending buffer holds fewer than block_size
\* bytes, and the raw bytes of the blocks flushed so far followed by the pending
\* buffer are the bytes passed to write so far, in order.
C22_BufferingInvariant ==
    w_pc = "open" =>
        /\ Len(w_pending) < w_block_size
        /\ FlushedRaw \o w_pending = written
        /\ raw_size(w_entries) + Len(w_pending) = Len(written)

\* The invariant of C22 for the Writers whose block size is at least 1.
C22_ForPositiveBlockSize == w_block_size >= 1 => C22_BufferingInvariant

\* C29: every call to Writer.write terminates, for every block size create
\* accepts, 0 included: each turn of the flush loop (a step inside write that
\* pushes an index entry) leaves the pending buffer shorter than it found it, so
\* the loop ends after at most as many turns as bytes were pending.
C29_WriteTerminates ==
    [][(w_pc = "write_loop" /\ w_pc' = "write_loop" /\ w_entries' # w_entries)
          => Len(w_pending') < Len(w_pending)]_vars

\* C23: the finished file does not depend on how the input was cut into write
\* calls.  Whatever the slices were (empty ones and slices of several blocks
\* included), after every write call that has returned the blocks flushed and
\* the pending bytes are those one write call with all the bytes so far leaves,
\* and after finish the index entries and the bytes of the file are those of
\* create, one write call with all of D, finish; so any two slicings of D give
\* the same block boundaries, index and file.
C23_SlicingIndependence ==
    /\ w_pc = "open" =>
          LET a == OneCall(written, w_codec, w_block_size).before_finish
          IN  /\ w_entries = a.w.entries
              /\ w_pending = a.pending
              /\ file = a.w.file
    /\ w_pc = "done" =>
          /\ w_entries = OneCall(written, w_codec, w_block_size).entries
          /\ file = OneCall(written, w_codec, w_block_size).file

\* A file finished after three write calls, of one byte, of no byte and of two
\* bytes, with a block boundary that falls inside the last slice.
C23_Witness ==
    /\ w_pc = "done"
    /\ slices = <<1, 0, 2>>
    /\ w_block_size = 2 /\ Len(w_entries) = 2
    /\ file = OneCall(written, w_codec, w_block_size).file

\* C24: empty input.  When no byte was written before finish (no write call, or
\* write calls with empty slices only), finish returns 0 and flushes no block;
\* the file is the 56-byte header, an empty index and the 8-byte footer holding
\* 56; Reader.open succeeds on it, with block_count = 0, raw_size = 0,
\* compressed_size = 0 and ratio = 1.0; every read_block(i) fails with OutOfRange
\* and every read_range(start, len) with len > 0 fails with OutOfRange.
C24_EmptyInput ==
    (w_pc = "done" /\ written = <<>>) =>
        /\ w_result = 0 /\ w_entries = <<>>
        /\ Len(file) = HEADER_SIZE + FOOTER_SIZE
        /\ SubSeq(file, 1, HEADER_SIZE) = Ancf1Header_to_bytes(FinalHeader)
        /\ SubSeq(file, HEADER_SIZE + 1, HEADER_SIZE + FOOTER_SIZE)
               = <<HEADER_SIZE, 0, 0, 0, 0, 0, 0, 0>>
        /\ \A o \in OpenOutcomes(file, w_codec) :
               o.status = "Ok" /\ o.entries = <<>> /\ o.header.block_count = 0
        /\ open_pc = "done" => (open_result = "Ok" /\ r_codec = w_codec)
        /\ r_open =>
              /\ Reader_block_count(r_header) = 0
              /\ raw_size(r_entries) = 0
              /\ compressed_size(r_entries) = 0
              /\ ratio(r_entries) = [num |-> 1, den |-> 1]
              /\ \A i \in 0..MaxLen \cup {Huge} :
                    read_block(file, r_header, r_entries, r_codec, r_cursor, i).status
                        = "OutOfRange"
              /\ \A start \in 0..MaxLen \cup {Huge} : \A len \in 1..MaxRangeLen \cup {Huge} :
                    read_range(file, r_header, r_entries, r_codec, r_cursor, start, len).status
                        = "OutOfRange"
              /\ res.op = "read_block" => res.status = "OutOfRange"
              /\ (res.op = "read_range" /\ res.len > 0) => res.status = "OutOfRange"

\* On the file of a Writer that was given an empty slice only, read_block and
\* then read_range with len > 0 have failed with OutOfRange.
C24_Witness ==
    /\ w_pc = "done" /\ written = <<>> /\ w_result = 0
    /\ Len(file) = HEADER_SIZE + FOOTER_SIZE
    /\ r_open
    /\ prev = "OutOfRange"
    /\ res.op = "read_range" /\ res.start = 0 /\ res.len > 0 /\ res.status = "OutOfRange"

\* The payload of entry e as it lies on disk.
DiskPayload(e) == ReadExact(file, e.offset + PrefixLen(e), e.compressed_len)

\* The trace holds a decompress_block call.
CallsCodec(io) == \E k \in 1..Len(io) : io[k] = IoCodec

\* What C25 says of read_block(i) with result r on a Reader with this header.
ChecksumBeforeDecode(header, e, r) ==
    /\ has_flag(header, FLAG_HAS_CHECKSUM) =>
          /\ CallsCodec(r.io) => xxh3_64(DiskPayload(e).data) = e.checksum
          /\ r.status = "Ok" => xxh3_64(DiskPayload(e).data) = e.checksum
    /\ ~has_flag(header, FLAG_HAS_CHECKSUM) =>
          /\ r.status # "ChecksumMismatch"
          /\ (DiskPayload(e).ok /\ r.status \notin {"Io", "MetadataLenMismatch"}) =>
                 /\ CallsCodec(r.io)
                 /\ r.status \in {"Ok", "CodecError", "SizeMismatch"}
    /\ r.status = "ChecksumMismatch" =>
          /\ has_flag(header, FLAG_HAS_CHECKSUM)
          /\ xxh3_64(DiskPayload(e).data) # e.checksum
          /\ ~CallsCodec(r.io)

\* C25: the checksum is verified before decoding.  With HAS_CHECKSUM set in the
\* Reader's header, read_block never calls decompress_block on a payload whose
\* recomputed checksum differs from the stored one; with HAS_CHECKSUM clear it
\* makes no comparison: it never fails with ChecksumMismatch and hands the
\* payload to the codec even when the stored checksum differs from the
\* payload's.
C25_ChecksumBeforeDecode ==
    r_open =>
        \A i \in 0..(Len(r_entries) - 1) :
            ChecksumBeforeDecode(r_header, r_entries[i + 1],
                read_block(file, r_header, r_entries, r_codec, r_cursor, i))

\* A Reader whose header has HAS_CHECKSUM clear has read a block whose stored
\* checksum is not its payload's, and got the block's bytes.
C25_Witness ==
    /\ r_open /\ ~has_flag(r_header, FLAG_HAS_CHECKSUM)
    /\ res.op = "read_block" /\ res.idx < Len(r_entries)
    /\ xxh3_64(DiskPayload(r_entries[res.idx + 1]).data) # r_entries[res.idx + 1].checksum
    /\ res.status = "Ok" /\ res.data = ExpectedBlock(res.idx)
    /\ CallsCodec(res.io)
    /\ res.io = read_block(file, r_header, r_entries, r_codec, r_cursor, res.idx).io

\* What C26 says of read_block(i) with result r: which bytes it reads.
SidecarByEntry(e, r) ==
    /\ r.io[1] = IoSeek(e.offset)
    /\ e.metadata_len = 0 =>
          /\ r.io[2] = IoRead(e.offset, e.compressed_len)
          /\ \A k \in 1..Len(r.io) : r.io[k].op = "read" => k = 2
          /\ r.status = "Ok" =>
                r.data = decompress_block(r_codec, DiskPayload(e).data, <<>>).data
    /\ e.metadata_len > 0 =>
          /\ r.io[2] = IoRead(e.offset, 2)
          /\ Len(r.io) >= 3 => r.io[3] = IoRead(e.offset + 2, e.metadata_len)
          /\ Len(r.io) >= 4 => r.io[4] = IoRead(e.offset + 2 + e.metadata_len, e.compressed_len)
          /\ r.status = "Ok" =>
                r.data = decompress_block(r_codec, DiskPayload(e).data,
                                          SubSeq(file, e.offset + 3,
                                                 e.offset + 2 + e.metadata_len)).data

\* C26: the per-entry metadata_len is authoritative.  read_block(i) reads a
\* 2-byte prefix and a sidecar iff entries[i].metadata_len > 0, whatever the
\* header's PER_BLOCK_META bit, which the Writer never sets; with metadata_len = 0
\* the payload is read from entries[i].offset and the codec gets an empty
\* sidecar, otherwise the codec gets the metadata_len sidecar bytes that follow
\* the prefix, which on an unchanged block are the ones the Writer stored.
C26_EntryDecidesSidecar ==
    /\ ~has_flag(FinalHeader, FLAG_PER_BLOCK_META)
    /\ r_open =>
          /\ \A i \in 0..(Len(r_entries) - 1) :
                LET e == r_entries[i + 1]
                    r == read_block(file, r_header, r_entries, r_codec, r_cursor, i)
                IN  /\ SidecarByEntry(e, r)
                    /\ Intact(i) =>
                          /\ r.status \in {"Ok", "ChecksumMismatch"}
                          /\ r.status = "Ok" => r.data = ExpectedBlock(i)
                          /\ SubSeq(file, e.offset + 3, e.offset + PrefixLen(e))
                                 = compress_block(w_codec, ExpectedBlock(i)).sidecar

\* A Reader whose header has PER_BLOCK_META clear has read a block that carries
\* a sidecar, prefix and sidecar first, and got the block's bytes.
C26_Witness ==
    /\ r_open /\ ~has_flag(r_header, FLAG_PER_BLOCK_META)
    /\ res.op = "read_block" /\ res.idx < Len(r_entries)
    /\ r_entries[res.idx + 1].metadata_len > 0
    /\ res.io[2] = IoRead(r_entries[res.idx + 1].offset, 2)
    /\ res.status = "Ok" /\ res.data = ExpectedBlock(res.idx)
    /\ res.io = read_block(file, r_header, r_entries, r_codec, r_cursor, res.idx).io

\* C27: for every flushed block, the recorded BlockEntry.metadata_len equals the
\* length of the sidecar the codec produced, the 2-byte prefix on disk holds the
\* same value, and exactly that many sidecar bytes lie between the prefix and
\* the compressed payload, for every sidecar length, 65536 bytes and more
\* included.
C27_SidecarLength ==
    \A i \in 0..(Len(w_entries) - 1) :
        LET e == w_entries[i + 1]
            c == compress_block(w_codec, ExpectedBlock(i))
            n == Len(c.sidecar)
        IN  /\ e.metadata_len = n
            /\ n > 0 =>
                  /\ from_le_bytes(SubSeq(file, e.offset + 1, e.offset + 2)) = n
                  /\ SubSeq(file, e.offset + 3, e.offset + 2 + n) = c.sidecar
                  /\ SubSeq(file, e.offset + 3 + n, e.offset + 2 + n + e.compressed_len) = c.data

\* The last call was read_range(start, len) with start < raw_size, len > 0 and
\* start + len >= raw_size, on a Reader of the finished file.
ReachesEnd ==
    /\ res.op = "read_range" /\ res.len # 0
    /\ res.start < raw_size(r_entries)
    /\ (res.len < 0 \/ res.start + res.len >= raw_size(r_entries))

\* C28: read_range clamps to the end of the data for every u64 len: for every
\* start < raw_size and every len > 0 with start + len >= raw_size, the lens for
\* which start + len exceeds 2^64 - 1 included, read_range(start, len) returns
\* D[start : raw_size]; the computation of end neither wraps around nor aborts.
C28_ClampsEveryLen ==
    ReachesEnd => /\ res.status = "Ok"
                  /\ res.data = Slice(written, res.start, Len(written))

\* The same for the lens below 2^24.
C28_ClampsShortLen ==
    (ReachesEnd /\ res.len > 0 /\ res.len < Huge) =>
        /\ res.status = "Ok"
        /\ res.data = Slice(written, res.start, Len(written))

\* The entries recorded so far are contiguous from the end of the header up to
\* current_offset, which is where the file ends.
ContiguousIndex ==
    w_pc \in {"open", "write_loop", "failed", "fin_index"} =>
        /\ \A i \in 1..Len(w_entries) :
              w_entries[i].offset + PrefixLen(w_entries[i]) + w_entries[i].compressed_len
                  = IF i < Len(w_entries) THEN w_entries[i + 1].offset ELSE w_current_offset
        /\ Len(w_entries) > 0 => w_entries[1].offset = HEADER_SIZE
        /\ Len(w_entries) = 0 => w_current_offset = HEADER_SIZE
        /\ Len(file) = w_current_offset

\* The block the Writer is about to flush (<<>>: none).
BlockToFlush ==
    IF w_pc = "write_loop" /\ Len(w_pending) >= w_block_size
    THEN SubSeq(w_pending, 1, w_block_size)
    ELSE IF w_pc = "open" THEN w_pending ELSE <<>>

\* A step of write or finish that flushes a block the codec refuses returns the
\* error and leaves file, entries and current_offset alone; no other step fails.
FailureLeavesNoTrace ==
    /\ (w_pc' = "failed" /\ w_pc # "failed") =>
          /\ ~compress_block(w_codec, BlockToFlush).ok
          /\ file' = file
          /\ w_entries' = w_entries
          /\ w_current_offset' = w_current_offset
          /\ w_cursor' = w_cursor
    /\ (w_entries' # w_entries \/ w_pc' = "fin_index") =>
          (BlockToFlush # <<>> => compress_block(w_codec, BlockToFlush).ok)

\* C30: a block whose compression fails leaves no trace in the index.  When
\* compress_block returns an error inside write or finish, the error is returned
\* to the caller, no byte of the block is written to the file, no BlockEntry is
\* pushed and current_offset is unchanged, so the entries recorded so far still
\* satisfy the contiguity invariant.
C30_FailedBlockLeavesNoTrace == []ContiguousIndex /\ [][FailureLeavesNoTrace]_vars

\* write has failed on a block after two blocks were flushed.
C30_Witness ==
    /\ w_pc = "failed"
    /\ Len(w_entries) = 2
    /\ ~compress_block(w_codec, ExpectedBlock(2)).ok
    /\ Len(file) = w_current_offset

====
